---- MODULE Spec2Model ----
(***************************************************************************)
(* Vulnerability tree of CVE_FinderForExe (src/src/core/data_structures.py) *)
(* and the version-range matching of VulnerabilityTree.find_vulnerabilities. *)
(*                                                                         *)
(* Text is a sequence of characters.  The tools' strings are ASCII, so the *)
(* Cyrillic letters the code looks for are named by their code points.     *)
(***************************************************************************)
EXTENDS Integers, Sequences, FiniteSets, TLC

VARIABLES root, built, rows, call, workers, stats, folder, pure, loader, report_gen,
          gui

vars == <<root, built, rows, call, workers, stats, folder, pure, loader, report_gen, gui>>

----------------------------------------------------------------------------
(* Characters and str methods                                              *)

co == "U+043E"
ct == "U+0442"
cd == "U+0434"
cO == "U+041E"
cT == "U+0422"
cD == "U+0414"

Digits == {"0", "1", "2", "3", "4", "5", "6", "7", "8", "9"}

DigitDot == Digits \cup {"."}

Space == {" "}

Chars == Digits \cup {".", " ", "-", "(", ")", "x", "l", "a", "t", "e", "s", "v",
                      co, ct, cd, cO, cT, cD}

\* isinstance(x, str): every element is a character
IsStr(x) == \A i \in DOMAIN x : x[i] \in Chars

\* the value None, which is no str
NoneV == <<"None">>

DigitVal(c) ==
    CASE c = "0" -> 0 [] c = "1" -> 1 [] c = "2" -> 2 [] c = "3" -> 3
      [] c = "4" -> 4 [] c = "5" -> 5 [] c = "6" -> 6 [] c = "7" -> 7
      [] c = "8" -> 8 [] c = "9" -> 9

\* str.lower() on one character
LowerChar(c) ==
    CASE c = cO -> co [] c = cT -> ct [] c = cD -> cd [] OTHER -> c

\* str.lower()
Lower(text) == [i \in DOMAIN text |-> LowerChar(text[i])]

\* pat in text
Contains(text, pat) ==
    \E i \in 0..(Len(text) - Len(pat)) : SubSeq(text, i + 1, i + Len(pat)) = pat

\* text.startswith(pat)
StartsWith(text, pat) ==
    Len(pat) <= Len(text) /\ SubSeq(text, 1, Len(pat)) = pat

----------------------------------------------------------------------------
(* re: the patterns of the code are sequences of elements, each a character *)
(* class taken once (a literal), one or more times (plus) or zero or more   *)
(* times (star).  Neighbouring classes are disjoint, so the greedy match at *)
(* a position is the only match there and no backtracking changes it.      *)

Lit(c) == [cls |-> {c}, min |-> 1, many |-> FALSE, group |-> 0]
Plus(cls, g) == [cls |-> cls, min |-> 1, many |-> TRUE, group |-> g]
Star(cls) == [cls |-> cls, min |-> 0, many |-> TRUE, group |-> 0]

\* the end (exclusive) of the longest run of cls characters from position i
RunEnd(text, cls, i) ==
    CHOOSE j \in i..(Len(text) + 1) :
        /\ j > Len(text) \/ text[j] \notin cls
        /\ \A k \in i..(j - 1) : text[k] \in cls

NoMatch == [ok |-> FALSE, g1 |-> NoneV, g2 |-> NoneV]

EmptyMatch == [ok |-> TRUE, g1 |-> NoneV, g2 |-> NoneV]

\* where element e stops when it is tried at position i
StopOf(e, text, i) ==
    IF e.many THEN RunEnd(text, e.cls, i)
    ELSE IF i <= Len(text) /\ text[i] \in e.cls THEN i + 1 ELSE i

\* the match object with the characters i..stop-1 stored in the element's group
Capture(m, e, text, i, stop) ==
    CASE e.group = 1 -> [m EXCEPT !.g1 = SubSeq(text, i, stop - 1)]
      [] e.group = 2 -> [m EXCEPT !.g2 = SubSeq(text, i, stop - 1)]
      [] OTHER -> m

\* re.match of the pattern elements k.. at position i
RECURSIVE MatchAt(_, _, _, _, _)
MatchAt(pat, k, text, i, m) ==
    IF k > Len(pat) THEN m
    ELSE CHOOSE r \in
            {IF stop - i < pat[k].min THEN NoMatch
             ELSE MatchAt(pat, k + 1, text, stop, m1) :
                 <<stop, m1>> \in {<<StopOf(pat[k], text, i),
                                    Capture(m, pat[k], text, i, StopOf(pat[k], text, i))>>}} :
            TRUE

\* re.search: the match at the leftmost position that has one
re_search(pat, text) ==
    CHOOSE r \in
        {IF \E i \in DOMAIN ms : ms[i].ok
         THEN ms[CHOOSE i \in DOMAIN ms : ms[i].ok /\ \A j \in 1..(i - 1) : ~ms[j].ok]
         ELSE NoMatch :
             ms \in {[i \in 1..(Len(text) + 1) |-> MatchAt(pat, 1, text, i, EmptyMatch)]}} :
        TRUE

\* int(n) of the digit run text[a..b]
RECURSIVE IntOf(_, _, _)
IntOf(text, a, b) ==
    IF b < a THEN 0 ELSE 10 * IntOf(text, a, b - 1) + DigitVal(text[b])

\* re.findall(r'\d+', text) followed by int(n) for each run: the runs start
\* at the digits that no digit precedes
RunStarts(text) ==
    {i \in DOMAIN text : text[i] \in Digits /\ (i = 1 \/ text[i - 1] \notin Digits)}

RECURSIVE NumbersFrom(_, _, _)
NumbersFrom(text, starts, i) ==
    IF i > Len(text) THEN <<>>
    ELSE IF i \in starts
         THEN <<IntOf(text, i, RunEnd(text, Digits, i) - 1)>> \o NumbersFrom(text, starts, i + 1)
         ELSE NumbersFrom(text, starts, i + 1)

FindAllNumbers(text) ==
    CHOOSE r \in {NumbersFrom(t, RunStarts(t), 1) : t \in {text}} : TRUE

----------------------------------------------------------------------------
(* VulnerabilityTree: version keys and range labels                        *)

\* A parsed version: ok is FALSE for the code's None
NoKey == [ok |-> FALSE, parts |-> <<>>]

\* if x: / if not x: on an Optional[tuple]
Truthy(key) == key.ok /\ key.parts # <<>>

\* int(n) raises ValueError for a digit string longer than the
\* interpreter's limit on int/str conversion (sys.get_int_max_str_digits())
IntMaxStrDigits == 4300

\* tuple(int(n) for n in numbers) raises ValueError
IntRaisesValueError(version_str) ==
    /\ Len(version_str) > IntMaxStrDigits
    /\ \E i \in RunStarts(version_str) :
          RunEnd(version_str, Digits, i) - i > IntMaxStrDigits

\* _parse_version that returns the tuple of the first number only
_parse_version_first(version_str) ==
    IF IntRaisesValueError(version_str) THEN NoKey
    ELSE CHOOSE r \in
            {IF numbers # <<>> THEN [ok |-> TRUE, parts |-> <<numbers[1]>>] ELSE NoKey :
                numbers \in {FindAllNumbers(version_str)}} :
            TRUE

_parse_version(version_str) ==
    IF IntRaisesValueError(version_str)
    THEN \* except ValueError: return None
         NoKey
    ELSE CHOOSE r \in
            {IF numbers # <<>> THEN [ok |-> TRUE, parts |-> numbers] ELSE NoKey :
                numbers \in {FindAllNumbers(version_str)}} :
            TRUE

Min(a, b) == IF a < b THEN a ELSE b

\* the comparison without the length test after the loop
RECURSIVE CompareFrom_noprefix(_, _, _)
CompareFrom_noprefix(version1, version2, i) ==
    IF i > Min(Len(version1), Len(version2)) THEN 0
    ELSE IF version1[i] < version2[i] THEN -1
         ELSE IF version1[i] > version2[i] THEN 1
         ELSE CompareFrom_noprefix(version1, version2, i + 1)

\* the for loop over zip(version1, version2), from element i on
RECURSIVE CompareFrom(_, _, _)
CompareFrom(version1, version2, i) ==
    IF i > Min(Len(version1), Len(version2))
    THEN IF Len(version1) < Len(version2) THEN -1
         ELSE IF Len(version1) > Len(version2) THEN 1
         ELSE 0
    ELSE IF version1[i] < version2[i] THEN -1
         ELSE IF version1[i] > version2[i] THEN 1
         ELSE CompareFrom(version1, version2, i + 1)

_compare_versions(version1, version2) == CompareFrom(version1, version2, 1)

PatFromTo == <<Lit(co), Lit(ct), Plus(Space, 0), Plus(DigitDot, 1), Plus(Space, 0),
               Lit(cd), Lit(co), Plus(Space, 0), Plus(DigitDot, 2)>>

PatHyphen == <<Plus(DigitDot, 1), Star(Space), Lit("-"), Star(Space), Plus(DigitDot, 2)>>

PatFrom == <<Lit(co), Lit(ct), Plus(Space, 0), Plus(DigitDot, 1)>>

PatTo == <<Lit(cd), Lit(co), Plus(Space, 0), Plus(DigitDot, 1)>>

UpperSentinel == <<"9", "9", "9", ".", "9", "9", "9", ".", "9", "9", "9">>

LowerSentinel == <<"0", ".", "0", ".", "0">>

\* the rules with 'X - Y' tried before 'from X to Y'
_parse_version_range_hyphen_first(version_str) ==
    CHOOSE r \in
        {IF m[2].ok THEN <<m[2].g1, m[2].g2>>
         ELSE IF m[1].ok THEN <<m[1].g1, m[1].g2>>
         ELSE IF m[3].ok THEN <<m[3].g1, UpperSentinel>>
         ELSE IF m[4].ok THEN <<LowerSentinel, m[4].g1>>
         ELSE <<NoneV, NoneV>> :
             m \in {<<re_search(PatFromTo, version_str_lower),
                      re_search(PatHyphen, version_str),
                      re_search(PatFrom, version_str_lower),
                      re_search(PatTo, version_str_lower)>> :
                        version_str_lower \in {Lower(version_str)}}} :
        TRUE

\* (start_version, end_version), each a str or None
_parse_version_range(version_str) ==
    CHOOSE r \in
        {IF m[1].ok THEN <<m[1].g1, m[1].g2>>
         ELSE IF m[2].ok THEN <<m[2].g1, m[2].g2>>
         ELSE IF m[3].ok THEN <<m[3].g1, UpperSentinel>>
         ELSE IF m[4].ok THEN <<LowerSentinel, m[4].g1>>
         ELSE <<NoneV, NoneV>> :
             m \in {<<re_search(PatFromTo, version_str_lower),
                      re_search(PatHyphen, version_str),
                      re_search(PatFrom, version_str_lower),
                      re_search(PatTo, version_str_lower)>> :
                        version_str_lower \in {Lower(version_str)}}} :
        TRUE

\* if start_version and end_version: a non-empty str
TruthyStr(x) == x # NoneV /\ x # <<>>

----------------------------------------------------------------------------
(* The tree: dicts are sequences in insertion order, keyed by name / label *)

\* root.get(name) / versions.get(label): the position of the key, 0 for None
RECURSIVE IndexOfName(_, _, _)
IndexOfName(dict, name, i) ==
    IF i > Len(dict) THEN 0
    ELSE IF dict[i].name = name THEN i ELSE IndexOfName(dict, name, i + 1)

RECURSIVE IndexOfVersion(_, _, _)
IndexOfVersion(versions, version_str, i) ==
    IF i > Len(versions) THEN 0
    ELSE IF versions[i].version = version_str THEN i
    ELSE IndexOfVersion(versions, version_str, i + 1)

\* vuln in self.vulnerabilities: the dataclass __eq__ compares every field
VulnIn(vuln, vulnerabilities) ==
    \E i \in DOMAIN vulnerabilities : vulnerabilities[i] = vuln

SoftwareVersion_add_vulnerability(soft_version, vuln) ==
    IF ~VulnIn(vuln, soft_version.vulnerabilities)
    THEN [soft_version EXCEPT !.vulnerabilities = Append(@, vuln)]
    ELSE soft_version

\* Software.add_version: the versions dict after the get-or-create
add_version(software, version_str) ==
    IF IndexOfVersion(software.versions, version_str, 1) = 0
    THEN [software EXCEPT !.versions =
             Append(@, [version |-> version_str, vulnerabilities |-> <<>>])]
    ELSE software

\* VulnerabilityTree.add_software: the root dict after the get-or-create
add_software(tree, name, vendor, software_type) ==
    IF IndexOfName(tree, name, 1) = 0
    THEN Append(tree, [name |-> name, vendor |-> vendor,
                       software_type |-> software_type, versions |-> <<>>])
    ELSE tree

\* VulnerabilityTree.add_vulnerability: the tree after the call
add_vulnerability(tree, software_name, version_str, vulnerability, vendor, software_type) ==
    LET t1 == add_software(tree, software_name, vendor, software_type)
        s == IndexOfName(t1, software_name, 1)
        sw == add_version(t1[s], version_str)
        v == IndexOfVersion(sw.versions, version_str, 1)
    IN  [t1 EXCEPT ![s] =
            [sw EXCEPT !.versions[v] =
                SoftwareVersion_add_vulnerability(sw.versions[v], vulnerability)]]

----------------------------------------------------------------------------
(* Lookup.  An operation returns the tree it leaves behind with its value, *)
(* so that what a query does to the index is computed, not assumed.        *)

\* get_software as a get-or-create lookup (self.add_software(name))
get_software_setdefault(tree, name) ==
    [tree |-> add_software(tree, name, "", ""),
     at |-> IndexOfName(add_software(tree, name, "", ""), name, 1)]

\* VulnerabilityTree.get_software: self.root.get(name); at = 0 is None
get_software(tree, name) ==
    [tree |-> tree, at |-> IndexOfName(tree, name, 1)]

\* get_version with a lookup that never finds the label
get_version_miss(software, version_str) == 0

\* Software.get_version: self.versions.get(version_str); 0 is None
get_version(software, version_str) ==
    IndexOfVersion(software.versions, version_str, 1)

\* get_all_vulnerabilities that returns after the first bucket
get_all_vulnerabilities_first(software) ==
    IF software.versions = <<>> THEN <<>> ELSE software.versions[1].vulnerabilities

\* Software.get_all_vulnerabilities: a new list, extended bucket by bucket
RECURSIVE ExtendAll(_, _, _)
ExtendAll(versions, i, all_vulns) ==
    IF i > Len(versions) THEN all_vulns
    ELSE ExtendAll(versions, i + 1, all_vulns \o versions[i].vulnerabilities)

get_all_vulnerabilities(software) == ExtendAll(software.versions, 1, <<>>)

\* 'от' in s.lower() or 'до' in s.lower() or '-' in s
SuggestsRange(version_str) ==
    \E lowered \in {Lower(version_str)} :
        \/ Contains(lowered, <<co, ct>>)
        \/ Contains(lowered, <<cd, co>>)
        \/ Contains(version_str, <<"-">>)

\* the range test with the bounds excluded (< 0 for <= 0)
InParsedRange_exclusive(version_str, target_parts) ==
    /\ SuggestsRange(version_str)
    /\ \E r \in {_parse_version_range(version_str)} :
          /\ TruthyStr(r[1]) /\ TruthyStr(r[2])
          /\ \E start_parts \in {_parse_version(r[1])}, end_parts \in {_parse_version(r[2])} :
                /\ Truthy(start_parts) /\ Truthy(end_parts)
                /\ _compare_versions(start_parts.parts, target_parts) < 0
                /\ _compare_versions(target_parts, end_parts.parts) < 0

\* the range test of one label: the bounds are parsed and contain the target
InParsedRange(version_str, target_parts) ==
    /\ SuggestsRange(version_str)
    /\ \E r \in {_parse_version_range(version_str)} :
          /\ TruthyStr(r[1]) /\ TruthyStr(r[2])
          /\ \E start_parts \in {_parse_version(r[1])}, end_parts \in {_parse_version(r[2])} :
                /\ Truthy(start_parts) /\ Truthy(end_parts)
                /\ _compare_versions(start_parts.parts, target_parts) <= 0
                /\ _compare_versions(target_parts, end_parts.parts) <= 0

\* the calls of _parse_version_range and _parse_version one label makes
LabelParseCalls(version_str) ==
    IF ~SuggestsRange(version_str) THEN 0
    ELSE IF \E r \in {_parse_version_range(version_str)} : TruthyStr(r[1]) /\ TruthyStr(r[2])
    THEN 3 ELSE 1

\* the test without its first operand: version_str.startswith(target_version)
SubstringTest_prefix_only(version_str, target_version) ==
    StartsWith(version_str, target_version)

\* target_version in version_str or version_str.startswith(target_version)
SubstringTest(version_str, target_version) ==
    Contains(version_str, target_version) \/ StartsWith(version_str, target_version)

----------------------------------------------------------------------------
(* Bounded inputs                                                          *)

\* the rows build_tree folds into the tree before it returns
MaxRows == 2

SoftwareNames == {"Apache", "Firefox"}

Vendors == {"Apache Software Foundation"}

SoftwareTypes == {"web server"}

\* Vulnerability records: two share a bdu_id and differ in another field
VulnA == [bdu_id |-> "BDU:2014-00001", severity |-> "high"]
VulnA2 == [bdu_id |-> "BDU:2014-00001", severity |-> "low"]
VulnB == [bdu_id |-> "BDU:2014-00002", severity |-> "critical"]

Vulns == {VulnA, VulnA2, VulnB}

\* "от 8.4.0 до 8.4.16"
LabelFromTo == <<co, ct, " ", "8", ".", "4", ".", "0", " ", cd, co, " ",
                 "8", ".", "4", ".", "1", "6">>
\* "8.4 - 9.0"
LabelHyphen == <<"8", ".", "4", " ", "-", " ", "9", ".", "0">>
\* "До 9"
LabelTo == <<cD, co, " ", "9">>
\* "от 8.5"
LabelFrom == <<co, ct, " ", "8", ".", "5">>
\* "8.4.5 (x)"
LabelLiteral == <<"8", ".", "4", ".", "5", " ", "(", "x", ")">>

\* a label that is no str: add_vulnerability(name, 12, vuln)
LabelInt == <<"int(12)">>

VersionLabels == {LabelFromTo, LabelHyphen, LabelTo, LabelFrom, LabelLiteral}

\* "x-8.4": a hyphen and no range; "от . до . 8": a range whose bounds have
\* no digit
LabelBadRange == <<"x", "-", "8", ".", "4">>
LabelDotBounds == <<co, ct, " ", ".", " ", cd, co, " ", ".", " ", "8">>

\* the labels whose bucket only the substring test can select
FallbackLabels == {LabelLiteral, LabelBadRange, LabelDotBounds}

StoredLabels == VersionLabels \cup FallbackLabels

\* "8.4.5", "4.1", "8.5.0", "latest"
V845 == <<"8", ".", "4", ".", "5">>
V41 == <<"4", ".", "1">>
V850 == <<"8", ".", "5", ".", "0">>
VLatest == <<"l", "a", "t", "e", "s", "t">>
\* "8.04.0" and "8.4.016": the keys (8,4,0) and (8,4,16), the bounds of
\* LabelFromTo, in a spelling that is no substring of the label
VLower == <<"8", ".", "0", "4", ".", "0">>
VUpper == <<"8", ".", "4", ".", "0", "1", "6">>

\* "(x)": no digit, and it occurs in LabelLiteral; "8": it occurs in
\* LabelLiteral, LabelBadRange and LabelDotBounds
VParen == <<"(", "x", ")">>
V8 == <<"8">>

\* "от 2018": an open-ended label whose bound is a year
LabelFrom2018 == <<co, ct, " ", "2", "0", "1", "8">>

\* the open-ended labels, which _parse_version_range completes by a sentinel
SentinelLabels == {LabelFrom2018, LabelFrom, LabelTo}

\* "2019.1", "9.0", "0", "0.0"
V20191 == <<"2", "0", "1", "9", ".", "1">>
V90 == <<"9", ".", "0">>
V0 == <<"0">>
V00 == <<"0", ".", "0">>

\* "8.5": inside "от 8.5" as a key and as a text
V85 == <<"8", ".", "5">>

\* the version arguments passed against the open-ended labels
SentinelVersions == {V20191, V90, V850, V0, V00, V85}

\* the version arguments of find_vulnerabilities
QueryVersions == {NoneV, V845, V41, V850, VLatest, VLower, VUpper, LabelHyphen, VParen, V8}

\* the version arguments that are a str
StrVersions == QueryVersions \ {NoneV}

\* target_parts = self._parse_version(target_version), for each argument
TargetParts == [q \in StrVersions \cup SentinelVersions |-> _parse_version(q)]

\* the tests one loop iteration makes on a str label, for each target
LabelTests ==
    [l \in StoredLabels \cup SentinelLabels |->
        [q \in StrVersions \cup SentinelVersions |->
            [in_range |-> \E target_parts \in {_parse_version(q)} :
                              Truthy(target_parts) /\ InParsedRange(l, target_parts.parts),
             substring |-> SubstringTest(l, q),
             parse_calls |-> LabelParseCalls(l)]]]

\* the records of more that list does not hold yet, appended to list
RECURSIVE ExtendNew(_, _)
ExtendNew(list, more) ==
    IF more = <<>> THEN list
    ELSE IF \E i \in DOMAIN list : list[i] = Head(more)
         THEN ExtendNew(list, Tail(more))
         ELSE ExtendNew(Append(list, Head(more)), Tail(more))

\* the loop iteration with the result deduplicated across buckets
ScanLabel_dedup(soft_version, target_version, st) ==
    IF ~IsStr(soft_version.version) THEN [st EXCEPT !.raised = TRUE]
    ELSE IF \E t \in {LabelTests[soft_version.version][target_version]} :
                t.in_range \/ t.substring
    THEN [st EXCEPT !.vulnerabilities = ExtendNew(@, soft_version.vulnerabilities),
                    !.parse_calls = @ + LabelTests[soft_version.version][target_version].parse_calls,
                    !.i = @ + 1]
    ELSE [st EXCEPT !.parse_calls = @ + LabelTests[soft_version.version][target_version].parse_calls,
                    !.i = @ + 1]

\* the loop iteration without the 'continue' that ends it after a range match
ScanLabel_nocontinue(soft_version, target_version, st) ==
    IF ~IsStr(soft_version.version) THEN [st EXCEPT !.raised = TRUE]
    ELSE [st EXCEPT
            !.vulnerabilities =
                (@ \o (IF LabelTests[soft_version.version][target_version].in_range
                        THEN soft_version.vulnerabilities ELSE <<>>))
                   \o (IF LabelTests[soft_version.version][target_version].substring
                        THEN soft_version.vulnerabilities ELSE <<>>),
            !.parse_calls = @ + LabelTests[soft_version.version][target_version].parse_calls,
            !.i = @ + 1]

\* One iteration of the for loop over software.versions.items().  st is the
\* frame of _find_vulnerabilities_in_ranges: the list built so far, the
\* exception in flight, the loop position.  The tests of the iteration are
\* read from LabelTests, their values tabulated over the model's texts.
ScanLabel(soft_version, target_version, st) ==
    LET version_str == soft_version.version
    IN  IF ~IsStr(version_str)
        THEN \* version_str.lower() raises AttributeError: the loop is left
             [st EXCEPT !.raised = TRUE]
        ELSE LET t == LabelTests[version_str][target_version]
             IN  IF t.in_range
                 THEN [st EXCEPT !.vulnerabilities = @ \o soft_version.vulnerabilities,
                                 !.parse_calls = @ + t.parse_calls,
                                 !.i = @ + 1]
                 ELSE IF t.substring
                 THEN [st EXCEPT !.vulnerabilities = @ \o soft_version.vulnerabilities,
                                 !.parse_calls = @ + t.parse_calls,
                                 !.i = @ + 1]
                 ELSE [st EXCEPT !.parse_calls = @ + t.parse_calls,
                                 !.i = @ + 1]

\* the body of the try block from the for loop on
RECURSIVE ScanLabels(_, _, _)
ScanLabels(software, target_version, st) ==
    IF st.raised \/ st.i > Len(software.versions) THEN st
    ELSE ScanLabels(software, target_version,
                    ScanLabel(software.versions[st.i], target_version, st))

\* except Exception: pass
ExceptPass(st) == [st EXCEPT !.raised = FALSE]

\* the frame once the try block is entered and the target has been parsed
EnterScan ==
    [vulnerabilities |-> <<>>, raised |-> FALSE, parse_calls |-> 1, i |-> 1]

\* the scan without 'if not target_parts: return []'
_find_vulnerabilities_in_ranges_noguard(software, target_version) ==
    ExceptPass(ScanLabels(software, target_version, EnterScan))

_find_vulnerabilities_in_ranges(software, target_version) ==
    IF ~Truthy(TargetParts[target_version]) THEN EnterScan
    ELSE ExceptPass(ScanLabels(software, target_version, EnterScan))

\* find_vulnerabilities that goes on to the scan of the labels after an
\* exact match and returns the exact bucket followed by what the scan adds
find_vulnerabilities_exact_plus_ranges(tree, software_name, version) ==
    LET g == get_software(tree, software_name)
        software == g.tree[g.at]
    IN  IF g.at = 0
        THEN [tree |-> g.tree, result |-> <<>>, raised |-> FALSE,
              parse_calls |-> 0, scanned |-> 0, path |-> "unknown"]
        ELSE IF version = NoneV
        THEN [tree |-> g.tree, result |-> get_all_vulnerabilities(software),
              raised |-> FALSE, parse_calls |-> 0, scanned |-> 0, path |-> "all"]
        ELSE LET st == _find_vulnerabilities_in_ranges(software, version)
                 exact == IF get_version(software, version) # 0
                          THEN software.versions[get_version(software, version)].vulnerabilities
                          ELSE <<>>
             IN  [tree |-> g.tree, result |-> exact \o st.vulnerabilities,
                  raised |-> st.raised, parse_calls |-> st.parse_calls,
                  scanned |-> st.i - 1, path |-> "ranges"]

\* VulnerabilityTree.find_vulnerabilities: the tree it leaves, the list it
\* returns, whether an exception leaves it, the parser calls it made, the
\* labels its loop went through and the return statement taken
find_vulnerabilities(tree, software_name, version) ==
    LET g == get_software(tree, software_name)
        software == g.tree[g.at]
    IN  IF g.at = 0
        THEN [tree |-> g.tree, result |-> <<>>, raised |-> FALSE,
              parse_calls |-> 0, scanned |-> 0, path |-> "unknown"]
        ELSE IF version = NoneV
        THEN [tree |-> g.tree, result |-> get_all_vulnerabilities(software),
              raised |-> FALSE, parse_calls |-> 0, scanned |-> 0, path |-> "all"]
        ELSE IF get_version(software, version) # 0
        THEN [tree |-> g.tree,
              result |-> software.versions[get_version(software, version)].vulnerabilities,
              raised |-> FALSE, parse_calls |-> 0, scanned |-> 0, path |-> "exact"]
        ELSE LET st == _find_vulnerabilities_in_ranges(software, version)
             IN  [tree |-> g.tree, result |-> st.vulnerabilities,
                  raised |-> st.raised, parse_calls |-> st.parse_calls,
                  scanned |-> st.i - 1, path |-> "ranges"]

----------------------------------------------------------------------------
(* Statistics                                                              *)

NoCounts == [critical |-> 0, high |-> 0, medium |-> 0, low |-> 0, unknown |-> 0]

\* the if/elif chain without its final else branches
CountSeverity_noelse(counts, vuln) ==
    CASE vuln.severity = "critical" -> [counts EXCEPT !.critical = @ + 1]
      [] vuln.severity = "high" -> [counts EXCEPT !.high = @ + 1]
      [] vuln.severity = "medium" -> [counts EXCEPT !.medium = @ + 1]
      [] vuln.severity = "low" -> [counts EXCEPT !.low = @ + 1]
      [] OTHER -> counts

\* the if/elif chain on vuln.severity: one counter is incremented
CountSeverity(counts, vuln) ==
    CASE vuln.severity = "critical" -> [counts EXCEPT !.critical = @ + 1]
      [] vuln.severity = "high" -> [counts EXCEPT !.high = @ + 1]
      [] vuln.severity = "medium" -> [counts EXCEPT !.medium = @ + 1]
      [] vuln.severity = "low" -> [counts EXCEPT !.low = @ + 1]
      [] OTHER -> [counts EXCEPT !.unknown = @ + 1]

\* for vuln in software.get_all_vulnerabilities(): ...
RECURSIVE CountList(_, _, _)
CountList(all_vulns, k, counts) ==
    IF k > Len(all_vulns) THEN counts
    ELSE CountList(all_vulns, k + 1, CountSeverity(counts, all_vulns[k]))

\* for software in self.root.values(): ...
RECURSIVE CountTree(_, _, _)
CountTree(tree, s, counts) ==
    IF s > Len(tree) THEN counts
    ELSE CountTree(tree, s + 1, CountList(get_all_vulnerabilities(tree[s]), 1, counts))

\* sum(len(sw.versions) for sw in self.root.values())
RECURSIVE TotalVersions(_, _)
TotalVersions(tree, s) ==
    IF s > Len(tree) THEN 0 ELSE Len(tree[s].versions) + TotalVersions(tree, s + 1)

\* the total with each record of a software counted once
RECURSIVE TotalVulnerabilities_distinct(_, _)
TotalVulnerabilities_distinct(tree, s) ==
    IF s > Len(tree) THEN 0
    ELSE Cardinality({get_all_vulnerabilities(tree[s])[k] :
                         k \in DOMAIN get_all_vulnerabilities(tree[s])})
         + TotalVulnerabilities_distinct(tree, s + 1)

\* sum(len(sw.get_all_vulnerabilities()) for sw in self.root.values())
RECURSIVE TotalVulnerabilities(_, _)
TotalVulnerabilities(tree, s) ==
    IF s > Len(tree) THEN 0
    ELSE Len(get_all_vulnerabilities(tree[s])) + TotalVulnerabilities(tree, s + 1)

\* the dict get_statistics returns for the tree
StatisticsOf(tree) ==
    LET counts == CountTree(tree, 1, NoCounts)
    IN  [total_software |-> Len(tree),
         total_versions |-> TotalVersions(tree, 1),
         total_vulnerabilities |-> TotalVulnerabilities(tree, 1),
         critical_vulnerabilities |-> counts.critical,
         high_vulnerabilities |-> counts.high,
         medium_vulnerabilities |-> counts.medium,
         low_vulnerabilities |-> counts.low,
         unknown_vulnerabilities |-> counts.unknown]

\* get_statistics that takes the records out of the buckets as it counts them
get_statistics_consuming(tree) ==
    [tree |-> [s \in DOMAIN tree |->
                  [tree[s] EXCEPT !.versions =
                      [v \in DOMAIN tree[s].versions |->
                          [tree[s].versions[v] EXCEPT !.vulnerabilities = <<>>]]]],
     stats |-> StatisticsOf(tree)]

\* VulnerabilityTree.get_statistics: the tree it leaves and the dict it returns
get_statistics(tree) == [tree |-> tree, stats |-> StatisticsOf(tree)]

----------------------------------------------------------------------------
(* State                                                                   *)
(*   root     VulnerabilityTree.root                                       *)
(*   rows     the rows build_tree has folded into the tree, in order       *)
(*   built    build_tree has returned the tree                             *)
(*   call     the find_vulnerabilities call the sequential caller is in    *)
(*   workers  the frames of the pool threads inside find_vulnerabilities   *)
(*   stats    the dicts get_statistics has returned, each with the number  *)
(*            of rows that had been folded in when it was called           *)
(*   folder   the frame of FolderScanner._scan_parallel and of its caller  *)
(*   pure     a call of one of the static methods on its own: the          *)
(*            arguments, and the value once it has returned                *)
(*   loader   the DataLoader: its tree, the cache file of its cache_dir,  *)
(*            and the calls made on it with what each returned             *)
(*   report_gen  a ReportGenerator and the list object its caller holds    *)
(*   gui      the ScanWorker of the GUI: the scan it runs and the signals  *)
(*            it has emitted                                               *)

Workers == {"w1", "w2"}

\* the version arguments the pool threads pass
WorkerVersions == {NoneV, V845, V41, LabelHyphen}

NoCall == [name |-> "", version |-> NoneV, result |-> <<>>, raised |-> FALSE,
           parse_calls |-> 0, scanned |-> 0, path |-> "none"]

Idle == [pc |-> "idle", name |-> "", version |-> NoneV, at |-> 0,
         st |-> EnterScan, result |-> <<>>]

\* a local variable that no assignment has bound yet
Unassigned == [assigned |-> FALSE, value |-> <<>>]

\* main before scanner.scan_folder(...): its findings is not assigned yet
NoFolder == [pc |-> "idle", findings |-> <<>>, main_findings |-> Unassigned]

NoPure == [fn |-> "", args |-> <<>>, pc |-> "none", out |-> NoneV]

\* no DataLoader, ReportGenerator or ScanWorker has been constructed
NoLoader == [pc |-> "none"]

NoReport == [pc |-> "none"]

NoWorker == [pc |-> "none"]

Init ==
    /\ root = <<>>
    /\ built = FALSE
    /\ rows = <<>>
    /\ call = NoCall
    /\ workers = [w \in Workers |-> Idle]
    /\ stats = <<>>
    /\ folder = NoFolder
    /\ pure = NoPure
    /\ loader = NoLoader
    /\ report_gen = NoReport
    /\ gui = NoWorker

\* BDUParser.build_tree, one row: tree.add_vulnerability(...); processed += 1
AddRowFrom(labels, vulns, vendors) ==
    /\ ~built
    /\ Len(rows) < MaxRows
    /\ \E software_name \in SoftwareNames, version_str \in labels,
          vulnerability \in vulns, vendor \in vendors, software_type \in SoftwareTypes :
          /\ root' = add_vulnerability(root, software_name, version_str, vulnerability,
                                       vendor, software_type)
          /\ rows' = Append(rows, [name |-> software_name, version |-> version_str,
                                   vuln |-> vulnerability, vendor |-> vendor,
                                   software_type |-> software_type])
    /\ UNCHANGED <<built, call, workers, stats, folder, pure, loader, report_gen, gui>>

AddRow(labels) == AddRowFrom(labels, Vulns, Vendors)

\* BDUParser.build_tree after its loop: stats = tree.get_statistics(), the
\* prints, return tree
ReturnTree ==
    /\ ~built
    /\ built' = TRUE
    /\ root' = get_statistics(root).tree
    /\ stats' = Append(stats, [after |-> Len(rows), value |-> get_statistics(root).stats])
    /\ UNCHANGED <<rows, call, workers, folder, pure, loader, report_gen, gui>>

\* FileScanner.scan_file reaches its call of find_vulnerabilities, which runs
\* to its return; the sequential caller makes one call at a time
FindFrom(versions) ==
    /\ built
    /\ call = NoCall
    /\ \E software_name \in SoftwareNames, version \in versions :
          LET r == find_vulnerabilities(root, software_name, version)
          IN  /\ root' = r.tree
              /\ call' = [name |-> software_name, version |-> version,
                          result |-> r.result, raised |-> r.raised,
                          parse_calls |-> r.parse_calls, scanned |-> r.scanned,
                          path |-> r.path]
    /\ UNCHANGED <<built, rows, workers, stats, folder, pure, loader, report_gen, gui>>

Find == FindFrom(QueryVersions)

\* scan_file wraps the list into its VulnerabilityFinding and returns
ScanFileReturn ==
    /\ call # NoCall
    /\ call' = NoCall
    /\ UNCHANGED <<root, built, rows, workers, stats, folder, pure, loader, report_gen, gui>>

AddStrRow == AddRow(VersionLabels)

Next == AddStrRow \/ ReturnTree \/ Find \/ ScanFileReturn

Spec == Init /\ [][Next]_vars

----------------------------------------------------------------------------
(* The tree of open-ended labels                                           *)

SentinelVulns == {VulnA, VulnB}

AddSentinelRow == AddRowFrom(SentinelLabels, SentinelVulns, Vendors)

FindSentinel == FindFrom(SentinelVersions)

NextSentinel == AddSentinelRow \/ ReturnTree \/ FindSentinel \/ ScanFileReturn

SpecSentinel == Init /\ [][NextSentinel]_vars

----------------------------------------------------------------------------
(* The caller changes the list it was handed                               *)

\* the longest list the caller grows its result to
MaxResultLen == 2

AliasLabels == {LabelHyphen, LabelFromTo}

\* None, a stored label, a version inside both labels
AliasVersions == {NoneV, LabelHyphen, V845}

AddAliasRow == AddRowFrom(AliasLabels, SentinelVulns, Vendors)

FindAlias == FindFrom(AliasVersions)

\* The list object the call returned, after the caller has made it new_list.
\* 'return soft_version.vulnerabilities' hands out the bucket's own list, so
\* the bucket reads new_list too; 'return []', the all_vulns of
\* get_all_vulnerabilities and the vulnerabilities of the range scan are
\* lists no bucket refers to.
SetReturnedList(tree, held, new_list) ==
    IF held.path = "exact"
    THEN [tree EXCEPT ![IndexOfName(tree, held.name, 1)].versions =
            [@ EXCEPT ![IndexOfVersion(@, held.version, 1)].vulnerabilities = new_list]]
    ELSE tree

\* the holder of the finding appends a record to finding.vulnerabilities
AppendToResult ==
    /\ call # NoCall
    /\ Len(call.result) < MaxResultLen
    /\ \E vuln \in SentinelVulns :
          /\ call' = [call EXCEPT !.result = Append(@, vuln)]
          /\ root' = SetReturnedList(root, call, Append(call.result, vuln))
    /\ UNCHANGED <<built, rows, workers, stats, folder, pure, loader, report_gen, gui>>

\* the holder of the finding removes the last record: list.pop()
RemoveFromResult ==
    /\ call # NoCall
    /\ call.result # <<>>
    /\ call' = [call EXCEPT !.result = SubSeq(@, 1, Len(@) - 1)]
    /\ root' = SetReturnedList(root, call, SubSeq(call.result, 1, Len(call.result) - 1))
    /\ UNCHANGED <<built, rows, workers, stats, folder, pure, loader, report_gen, gui>>

NextAlias ==
    AddAliasRow \/ ReturnTree \/ FindAlias \/ AppendToResult \/ RemoveFromResult
        \/ ScanFileReturn

SpecAlias == Init /\ [][NextAlias]_vars

----------------------------------------------------------------------------
(* FolderScanner: the sequential and the parallel scan of one file list     *)
(*   folder.files     the list get_files_recursive returned                 *)
(*   folder.outcome   what scan_file does on each file: it returns a        *)
(*                    finding, returns None, or raises an Exception         *)
(*   folder.seq       the frame of _scan_sequential                         *)
(*   folder.par       the frame of _scan_parallel; future[k] is the state   *)
(*                    of the future submitted for files[k]                   *)

\* the longest file list
MaxFiles == 3

\* FolderScanner.max_workers of a scanner that scans in parallel
MaxWorkers == 2

FilePaths == <<"f1", "f2", "f3", "f4">>

Outcomes == {"finding", "none", "raises"}

\* the finding scan_file returned for the file
ResultFinding(file_path) == [file_path |-> file_path, kind |-> "result"]

\* VulnerabilityFinding(file_path=file_path)
EmptyFinding(file_path) == [file_path |-> file_path, kind |-> "empty"]

\* the try statement of the sequential loop
SequentialHandle(findings, file_path, outcome) ==
    CASE outcome = "finding" -> Append(findings, ResultFinding(file_path))
      [] outcome = "none" -> findings
      [] outcome = "raises" -> Append(findings, EmptyFinding(file_path))

\* the try statement of the as_completed loop without its except branch
ParallelHandle_noexcept(findings, file_path, outcome) ==
    CASE outcome = "finding" -> Append(findings, ResultFinding(file_path))
      [] outcome = "none" -> findings
      [] outcome = "raises" -> findings

\* the try statement of the as_completed loop
ParallelHandle(findings, file_path, outcome) ==
    CASE outcome = "finding" -> Append(findings, ResultFinding(file_path))
      [] outcome = "none" -> findings
      [] outcome = "raises" -> Append(findings, EmptyFinding(file_path))

\* scan_folder has the file list and each mode has entered its function;
\* the dict comprehension has submitted one future for each file
InitScan ==
    /\ root = <<>>
    /\ built = FALSE
    /\ rows = <<>>
    /\ call = NoCall
    /\ workers = [w \in Workers |-> Idle]
    /\ stats = <<>>
    /\ pure = NoPure
    /\ loader = NoLoader
    /\ report_gen = NoReport
    /\ gui = NoWorker
    /\ \E n \in 1..MaxFiles : \E outcome \in [1..n -> Outcomes] :
          folder = [files |-> SubSeq(FilePaths, 1, n),
                    outcome |-> outcome,
                    seq |-> [pc |-> "loop", i |-> 0, findings |-> <<>>, progress |-> <<>>],
                    par |-> [pc |-> "pool", future |-> [k \in 1..n |-> "pending"],
                             findings |-> <<>>, completed |-> 0, progress |-> <<>>]]

\* one iteration of the for loop of _scan_sequential
ScanSequentialStep ==
    /\ folder.seq.pc = "loop"
    /\ folder.seq.i < Len(folder.files)
    /\ folder' = [folder EXCEPT
          !.seq.findings = SequentialHandle(@, folder.files[folder.seq.i + 1],
                                            folder.outcome[folder.seq.i + 1]),
          !.seq.progress = Append(@, <<folder.seq.i + 1, Len(folder.files)>>),
          !.seq.i = @ + 1]
    /\ UNCHANGED <<root, built, rows, call, workers, stats, pure, loader, report_gen, gui>>

\* return findings
ScanSequentialReturn ==
    /\ folder.seq.pc = "loop"
    /\ folder.seq.i = Len(folder.files)
    /\ folder' = [folder EXCEPT !.seq.pc = "returned"]
    /\ UNCHANGED <<root, built, rows, call, workers, stats, pure, loader, report_gen, gui>>

\* a free pool thread takes the work item of files[k]
PoolStart(k) ==
    /\ folder.par.future[k] = "pending"
    /\ Cardinality({j \in DOMAIN folder.files : folder.par.future[j] = "running"})
          < MaxWorkers
    /\ folder' = [folder EXCEPT !.par.future[k] = "running"]
    /\ UNCHANGED <<root, built, rows, call, workers, stats, pure, loader, report_gen, gui>>

\* scan_file ends in the pool thread: the future holds its result or exception
PoolFinish(k) ==
    /\ folder.par.future[k] = "running"
    /\ folder' = [folder EXCEPT !.par.future[k] = "done"]
    /\ UNCHANGED <<root, built, rows, call, workers, stats, pure, loader, report_gen, gui>>

\* one iteration of the as_completed loop, on a future that is done
AsCompleted(k) ==
    /\ folder.par.pc = "pool"
    /\ folder.par.future[k] = "done"
    /\ folder' = [folder EXCEPT
          !.par.future[k] = "collected",
          !.par.findings = ParallelHandle(@, folder.files[k], folder.outcome[k]),
          !.par.completed = @ + 1,
          !.par.progress = Append(@, <<folder.par.completed + 1, Len(folder.files)>>)]
    /\ UNCHANGED <<root, built, rows, call, workers, stats, pure, loader, report_gen, gui>>

\* as_completed is exhausted, the with block shuts the pool down, return findings
ScanParallelReturn ==
    /\ folder.par.pc = "pool"
    /\ \A k \in DOMAIN folder.files : folder.par.future[k] = "collected"
    /\ folder' = [folder EXCEPT !.par.pc = "returned"]
    /\ UNCHANGED <<root, built, rows, call, workers, stats, pure, loader, report_gen, gui>>

ScanParallelStep ==
    \E k \in DOMAIN folder.files : PoolStart(k) \/ PoolFinish(k) \/ AsCompleted(k)

NextScan ==
    ScanSequentialStep \/ ScanSequentialReturn \/ ScanParallelStep \/ ScanParallelReturn

SpecScan == InitScan /\ [][NextScan]_vars

----------------------------------------------------------------------------
(* DataLoader: load_bdu and its cache file                                  *)
(*   loader.tree       DataLoader.tree                                      *)
(*   loader.cache_dir  the files of cache_dir, by the source in their name  *)
(*   loader.calls      the calls made so far, each load with what it        *)
(*                     returned                                             *)

\* the calls made on one DataLoader
MaxLoads == 3

\* the data files load_bdu is given, each as the rows parse_row accepts
DataFiles ==
    [file_path \in {"a.xlsx", "b.xlsx"} |->
        IF file_path = "a.xlsx"
        THEN <<[name |-> "Apache", version |-> LabelFromTo, vuln |-> VulnA,
                vendor |-> "Apache Software Foundation", software_type |-> "web server"]>>
        ELSE <<[name |-> "Firefox", version |-> LabelTo, vuln |-> VulnB,
                vendor |-> "Apache Software Foundation", software_type |-> "web server"]>>]

\* the source names a cache file can carry
Sources == {"bdu", "nvd"}

\* the for loop of build_tree over the rows of the data frame
RECURSIVE BuildFrom(_, _, _)
BuildFrom(tuples, i, tree) ==
    IF i > Len(tuples) THEN tree
    ELSE BuildFrom(tuples, i + 1,
                   add_vulnerability(tree, tuples[i].name, tuples[i].version, tuples[i].vuln,
                                     tuples[i].vendor, tuples[i].software_type))

\* BDUParser(file_path).build_tree()
build_tree(file_path) == get_statistics(BuildFrom(DataFiles[file_path], 1, <<>>)).tree

\* self.cache_dir / f"tree_{source}.cache"
_get_cache_path(source) == <<"tree_", source, ".cache">>

\* the source in the name of a cache file
SourceOf(cache_path) == cache_path[2]

\* pickle.dump(tree, f) and pickle.load(f): the bytes hold the object graph
pickle_dump(tree) == [format |-> "pickle", graph |-> tree]

pickle_load(bytes) == bytes.graph

NoFile == [exists |-> FALSE, bytes |-> pickle_dump(<<>>)]

\* DataLoader(cache_dir) on a cache directory without files
NewLoader ==
    [pc |-> "ready", tree |-> Unassigned, cache_dir |-> [source \in Sources |-> NoFile],
     calls |-> <<>>]

InitLoader ==
    /\ root = <<>>
    /\ built = FALSE
    /\ rows = <<>>
    /\ call = NoCall
    /\ workers = [w \in Workers |-> Idle]
    /\ stats = <<>>
    /\ folder = NoFolder
    /\ pure = NoPure
    /\ loader = NewLoader
    /\ report_gen = NoReport
    /\ gui = NoWorker

\* DataLoader.load_bdu: the loader it leaves, with the call and the tree it
\* returned appended to calls
load_bdu(ld, file_path, use_cache) ==
    LET cache_path == _get_cache_path("bdu")
        cache_file == ld.cache_dir[SourceOf(cache_path)]
    IN  IF use_cache /\ cache_file.exists
        THEN \* self.tree = pickle.load(f); return self.tree
             [ld EXCEPT !.tree = [assigned |-> TRUE, value |-> pickle_load(cache_file.bytes)],
                        !.calls = Append(@, [op |-> "load_bdu", file_path |-> file_path,
                                             use_cache |-> use_cache,
                                             out |-> pickle_load(cache_file.bytes)])]
        ELSE [ld EXCEPT !.tree = [assigned |-> TRUE, value |-> build_tree(file_path)],
                        !.cache_dir[SourceOf(cache_path)] =
                            IF use_cache
                            THEN [exists |-> TRUE, bytes |-> pickle_dump(build_tree(file_path))]
                            ELSE @,
                        !.calls = Append(@, [op |-> "load_bdu", file_path |-> file_path,
                                             use_cache |-> use_cache,
                                             out |-> build_tree(file_path)])]

\* DataLoader.clear_cache
clear_cache(ld, source) ==
    LET cache_path == _get_cache_path(source)
    IN  [ld EXCEPT !.cache_dir[SourceOf(cache_path)] =
                       IF @.exists THEN NoFile ELSE @,
                   !.calls = Append(@, [op |-> "clear_cache", file_path |-> source,
                                        use_cache |-> FALSE, out |-> <<>>])]

LoadBdu ==
    /\ Len(loader.calls) < MaxLoads
    /\ \E file_path \in DOMAIN DataFiles, use_cache \in BOOLEAN :
          loader' = load_bdu(loader, file_path, use_cache)
    /\ UNCHANGED <<root, built, rows, call, workers, stats, folder, pure, report_gen, gui>>

ClearCache ==
    /\ Len(loader.calls) < MaxLoads
    /\ \E source \in Sources : loader' = clear_cache(loader, source)
    /\ UNCHANGED <<root, built, rows, call, workers, stats, folder, pure, report_gen, gui>>

NextLoader == LoadBdu \/ ClearCache

SpecLoader == InitLoader /\ [][NextLoader]_vars

----------------------------------------------------------------------------
(* ReportGenerator and the list objects it shares with its caller           *)
(*   report_gen.heap     the list objects, by identity                      *)
(*   report_gen.findings, .all_analyzed_items                               *)
(*                       the list each attribute refers to                  *)
(*   report_gen.items    the list the front-end got from its scan           *)
(*   report_gen.scanned  the content of that list when the scan returned    *)

\* the longest list of analysed items
MaxItems == 3

\* len(finding.vulnerabilities) of an analysed item
VulnerabilityCounts == {0, 1, 2}

\* the front-ends: ScanWorker._scan_folder and the command-line main
FrontEnds == {"gui", "cli"}

\* the list objects: the two __init__ creates, the one the scan returned,
\* and the one the list comprehension 'vulnerable' creates
ListIds == {"init_findings", "init_items", "scan_result", "vulnerable"}

\* a ReportGenerator() next to the list a scan returned
NewReport(front_end, scanned) ==
    [pc |-> "scanned", front_end |-> front_end, scanned |-> scanned,
     heap |-> [id \in ListIds |-> IF id = "scan_result" THEN scanned ELSE <<>>],
     findings |-> "init_findings", all_analyzed_items |-> "init_items",
     items |-> "scan_result", total_files_scanned |-> 0]

InitReport ==
    /\ root = <<>>
    /\ built = FALSE
    /\ rows = <<>>
    /\ call = NoCall
    /\ workers = [w \in Workers |-> Idle]
    /\ stats = <<>>
    /\ folder = NoFolder
    /\ pure = NoPure
    /\ loader = NoLoader
    /\ gui = NoWorker
    /\ \E front_end \in FrontEnds, n \in 0..MaxItems :
          \E counts \in [1..n -> VulnerabilityCounts] :
             report_gen = NewReport(front_end,
                             [k \in 1..n |-> [file_path |-> FilePaths[k],
                                              vulnerabilities_count |-> counts[k]]])

\* list.extend(more) on the list object id: every reference to it sees it
Extend(heap, id, more) == [heap EXCEPT ![id] = @ \o more]

\* ReportGenerator.add_findings(findings), findings being the list object id
add_findings(rg, id) ==
    [rg EXCEPT !.heap = Extend(Extend(rg.heap, rg.findings, rg.heap[id]),
                               rg.all_analyzed_items,
                               Extend(rg.heap, rg.findings, rg.heap[id])[id])]

\* ReportGenerator.add_all_analyzed_items(items): self.all_analyzed_items = items
add_all_analyzed_items(rg, id) == [rg EXCEPT !.all_analyzed_items = id]

\* [f for f in findings if f.has_vulnerabilities()]
RECURSIVE VulnerableOf(_)
VulnerableOf(findings) ==
    IF findings = <<>> THEN <<>>
    ELSE IF Head(findings).vulnerabilities_count > 0
         THEN <<Head(findings)>> \o VulnerableOf(Tail(findings))
         ELSE VulnerableOf(Tail(findings))

\* 'total_files_scanned': len(self.all_analyzed_items) or len(self.findings)
TotalFilesScanned(rg) ==
    IF Len(rg.heap[rg.all_analyzed_items]) # 0
    THEN Len(rg.heap[rg.all_analyzed_items])
    ELSE Len(rg.heap[rg.findings])

\* ScanWorker._scan_folder: self.report_gen.add_all_analyzed_items(findings)
AddAllAnalyzedItems ==
    /\ report_gen.pc = "scanned" /\ report_gen.front_end = "gui"
    /\ report_gen' = [add_all_analyzed_items(report_gen, report_gen.items)
                         EXCEPT !.pc = "all_added"]
    /\ UNCHANGED <<root, built, rows, call, workers, stats, folder, pure, loader, gui>>

\* ScanWorker._scan_folder: vulnerable = [...]; self.report_gen.add_findings(vulnerable)
AddVulnerableFindings ==
    /\ report_gen.pc = "all_added"
    /\ report_gen' =
          [add_findings([report_gen EXCEPT !.heap["vulnerable"] =
                                               VulnerableOf(report_gen.heap[report_gen.items])],
                        "vulnerable")
             EXCEPT !.pc = "findings_added"]
    /\ UNCHANGED <<root, built, rows, call, workers, stats, folder, pure, loader, gui>>

\* main of the command line: report_gen.add_findings(findings)
AddFindings ==
    /\ report_gen.pc = "scanned" /\ report_gen.front_end = "cli"
    /\ report_gen' = [add_findings(report_gen, report_gen.items)
                         EXCEPT !.pc = "findings_added"]
    /\ UNCHANGED <<root, built, rows, call, workers, stats, folder, pure, loader, gui>>

\* ReportGenerator.generate_json: the metadata of the report
GenerateJson ==
    /\ report_gen.pc = "findings_added"
    /\ report_gen' = [report_gen EXCEPT !.pc = "generated",
                                        !.total_files_scanned = TotalFilesScanned(report_gen)]
    /\ UNCHANGED <<root, built, rows, call, workers, stats, folder, pure, loader, gui>>

NextReport == AddAllAnalyzedItems \/ AddVulnerableFindings \/ AddFindings \/ GenerateJson

SpecReport == InitReport /\ [][NextReport]_vars

----------------------------------------------------------------------------
(* ScanWorker.run_scan and the signals it emits                             *)
(*   gui.scan_type  the scan the worker was constructed for                 *)
(*   gui.platform   sys.platform                                            *)
(*   gui.scan       whether the scanner the branch calls returns or raises  *)
(*   gui.packages   what get_installed_packages_linux returns               *)
(*   gui.pc         the statement run_scan is at                            *)
(*   gui.emitted    the signals emitted so far, in order                    *)

ScanTypes == {"file", "folder", "registry", "installed_packages", "system"}

Platforms == {"win32", "linux"}

\* ScanWorker(tree, scan_type, scan_path) at the start of run_scan
InitWorker ==
    /\ root = <<>>
    /\ built = FALSE
    /\ rows = <<>>
    /\ call = NoCall
    /\ workers = [w \in Workers |-> Idle]
    /\ stats = <<>>
    /\ folder = NoFolder
    /\ pure = NoPure
    /\ loader = NoLoader
    /\ report_gen = NoReport
    /\ \E scan_type \in ScanTypes, platform \in Platforms,
          scan \in {"returns", "raises"}, packages \in {"empty", "some"} :
          gui = [pc |-> "run_scan", scan_type |-> scan_type, platform |-> platform,
                 scan |-> scan, packages |-> packages, emitted |-> <<>>]

\* the if/elif chain of run_scan: the method it calls, or none
Dispatch ==
    /\ gui.pc = "run_scan"
    /\ gui' = [gui EXCEPT !.pc =
          CASE gui.scan_type = "file" -> "_scan_file"
            [] gui.scan_type = "folder" -> "_scan_folder"
            [] gui.scan_type = "registry" /\ gui.platform = "win32" -> "_scan_registry"
            [] gui.scan_type = "installed_packages" -> "_scan_installed_packages"
            [] gui.scan_type = "system" -> "_scan_system"
            [] OTHER -> "emit_finished"]
    /\ UNCHANGED <<root, built, rows, call, workers, stats, folder, pure, loader, report_gen>>

\* the worker after a scanner call that reports progress and then returns,
\* control going back to run_scan, or raises, control going to its except
AfterScanner(worker) ==
    IF worker.scan = "returns"
    THEN [worker EXCEPT !.pc = "emit_finished", !.emitted = Append(@, "progress")]
    ELSE [worker EXCEPT !.pc = "except"]

\* ScanWorker._scan_file: no progress callback is passed
WorkerScanFile ==
    /\ gui.pc = "_scan_file"
    /\ gui' = [gui EXCEPT !.pc = IF gui.scan = "returns" THEN "emit_finished" ELSE "except"]
    /\ UNCHANGED <<root, built, rows, call, workers, stats, folder, pure, loader, report_gen>>

\* ScanWorker._scan_folder
WorkerScanFolder ==
    /\ gui.pc = "_scan_folder"
    /\ gui' = AfterScanner(gui)
    /\ UNCHANGED <<root, built, rows, call, workers, stats, folder, pure, loader, report_gen>>

\* ScanWorker._scan_registry
WorkerScanRegistry ==
    /\ gui.pc = "_scan_registry"
    /\ gui' = IF gui.platform # "win32"
              THEN [gui EXCEPT !.pc = "emit_finished", !.emitted = Append(@, "error")]
              ELSE AfterScanner(gui)
    /\ UNCHANGED <<root, built, rows, call, workers, stats, folder, pure, loader, report_gen>>

\* ScanWorker._scan_installed_packages: the registry on Windows; elsewhere
\* the package list, whose loop calls self.tree.search, a method
\* VulnerabilityTree does not have
WorkerScanInstalledPackages ==
    /\ gui.pc = "_scan_installed_packages"
    /\ gui' = IF gui.platform = "win32" THEN AfterScanner(gui)
              ELSE IF gui.scan = "raises" THEN [gui EXCEPT !.pc = "except"]
              ELSE IF gui.packages = "empty"
              THEN \* self.error.emit(...); return
                   [gui EXCEPT !.pc = "emit_finished", !.emitted = Append(@, "error")]
              ELSE \* self.progress_callback(1, total), then AttributeError
                   [gui EXCEPT !.pc = "except", !.emitted = Append(@, "progress")]
    /\ UNCHANGED <<root, built, rows, call, workers, stats, folder, pure, loader, report_gen>>

\* ScanWorker._scan_system
WorkerScanSystem ==
    /\ gui.pc = "_scan_system"
    /\ gui' = AfterScanner(gui)
    /\ UNCHANGED <<root, built, rows, call, workers, stats, folder, pure, loader, report_gen>>

\* self.finished.emit({...}) at the end of the try block
EmitFinished ==
    /\ gui.pc = "emit_finished"
    /\ gui' = [gui EXCEPT !.pc = "done", !.emitted = Append(@, "finished")]
    /\ UNCHANGED <<root, built, rows, call, workers, stats, folder, pure, loader, report_gen>>

\* except Exception as e: self.error.emit(str(e))
EmitError ==
    /\ gui.pc = "except"
    /\ gui' = [gui EXCEPT !.pc = "done", !.emitted = Append(@, "error")]
    /\ UNCHANGED <<root, built, rows, call, workers, stats, folder, pure, loader, report_gen>>

NextWorker ==
    Dispatch \/ WorkerScanFile \/ WorkerScanFolder \/ WorkerScanRegistry
        \/ WorkerScanInstalledPackages \/ WorkerScanSystem \/ EmitFinished \/ EmitError

SpecWorker == InitWorker /\ [][NextWorker]_vars

----------------------------------------------------------------------------
(* The tree of labels that are no parsable range                           *)

AddFallbackRow == AddRow(FallbackLabels)

NextFallback == AddFallbackRow \/ ReturnTree \/ Find \/ ScanFileReturn

SpecFallback == Init /\ [][NextFallback]_vars

----------------------------------------------------------------------------
(* The tree as the typed callers never build it: a label that is no str.   *)

RawLabels == VersionLabels \cup {LabelInt}

AddRawRow == AddRow(RawLabels)

NextRaw == AddRawRow \/ ReturnTree \/ Find \/ ScanFileReturn

SpecRaw == Init /\ [][NextRaw]_vars

----------------------------------------------------------------------------
(* The pool threads of FolderScanner._scan_parallel, each running          *)
(* scan_file -> find_vulnerabilities on the shared tree.  A thread can be  *)
(* switched out between any two iterations of the label loop.              *)

\* find_vulnerabilities up to the for loop
WorkerCall(w) ==
    /\ built
    /\ workers[w].pc = "idle"
    /\ \E software_name \in SoftwareNames, version \in WorkerVersions :
          LET g == get_software(root, software_name)
              software == g.tree[g.at]
              f == [Idle EXCEPT !.name = software_name, !.version = version,
                                !.at = g.at]
          IN  /\ root' = g.tree
              /\ workers' = [workers EXCEPT ![w] =
                    IF g.at = 0
                    THEN [f EXCEPT !.pc = "returned"]
                    ELSE IF version = NoneV
                    THEN [f EXCEPT !.pc = "returned",
                                   !.result = get_all_vulnerabilities(software)]
                    ELSE IF get_version(software, version) # 0
                    THEN [f EXCEPT !.pc = "returned",
                                   !.result = software.versions[
                                       get_version(software, version)].vulnerabilities]
                    ELSE IF ~Truthy(TargetParts[version])
                    THEN [f EXCEPT !.pc = "returned"]
                    ELSE [f EXCEPT !.pc = "scan"]]
    /\ UNCHANGED <<built, rows, call, stats, folder, pure, loader, report_gen, gui>>

\* one iteration of the label loop, or its end
WorkerScan(w) ==
    /\ workers[w].pc = "scan"
    /\ LET f == workers[w]
           software == root[f.at]
       IN  IF f.st.i > Len(software.versions)
           THEN workers' = [workers EXCEPT ![w] =
                    [f EXCEPT !.pc = "returned", !.result = f.st.vulnerabilities]]
           ELSE LET st1 == ScanLabel(software.versions[f.st.i], f.version, f.st)
                IN  workers' = [workers EXCEPT ![w] =
                        IF st1.raised
                        THEN [f EXCEPT !.pc = "returned", !.st = ExceptPass(st1),
                                       !.result = st1.vulnerabilities]
                        ELSE [f EXCEPT !.st = st1]]
    /\ UNCHANGED <<root, built, rows, call, stats, folder, pure, loader, report_gen, gui>>

\* future.result() hands the finding to the as_completed loop
WorkerDone(w) ==
    /\ workers[w].pc = "returned"
    /\ workers' = [workers EXCEPT ![w] = Idle]
    /\ UNCHANGED <<root, built, rows, call, stats, folder, pure, loader, report_gen, gui>>

WorkerStep == \E w \in Workers : WorkerCall(w) \/ WorkerScan(w) \/ WorkerDone(w)

\* the labels of the tree the pool threads query
WorkerLabels == {LabelFromTo, LabelHyphen}

AddWorkerRow == AddRow(WorkerLabels)

NextWorkers == AddWorkerRow \/ ReturnTree \/ WorkerStep

SpecWorkers == Init /\ [][NextWorkers]_vars

----------------------------------------------------------------------------
(* cli main: scanner.scan_folder(...) -> _scan_parallel, one submitted     *)
(* scan_file per pool thread, and a KeyboardInterrupt in the main thread   *)
(* while it is in the as_completed loop.                                   *)

\* findings = [] ; the with block is entered and the tasks are submitted
ScanFolder ==
    /\ built
    /\ folder.pc = "idle"
    /\ folder' = [folder EXCEPT !.pc = "pool", !.findings = <<>>]
    /\ UNCHANGED <<root, built, rows, call, workers, stats, pure, loader, report_gen, gui>>

\* a pool thread takes its task: the executor runs the submitted tasks
\* also while shutdown(wait=True) waits for them
PoolCall(w) ==
    /\ folder.pc \in {"pool", "interrupted"}
    /\ WorkerCall(w)

\* result = future.result(); findings.append(result)
Collect(w) ==
    /\ folder.pc = "pool"
    /\ workers[w].pc = "returned"
    /\ folder' = [folder EXCEPT !.findings =
                      Append(@, [file |-> w, vulnerabilities |-> workers[w].result])]
    /\ workers' = [workers EXCEPT ![w].pc = "collected"]
    /\ UNCHANGED <<root, built, rows, call, stats, pure, loader, report_gen, gui>>

PoolStep == \E w \in Workers : PoolCall(w) \/ WorkerScan(w) \/ Collect(w)

\* as_completed is exhausted: return findings, up to main's assignment
PoolReturn ==
    /\ folder.pc = "pool"
    /\ \A w \in Workers : workers[w].pc = "collected"
    /\ folder' = [folder EXCEPT !.pc = "returned",
                                !.main_findings = [assigned |-> TRUE, value |-> folder.findings]]
    /\ UNCHANGED <<root, built, rows, call, workers, stats, pure, loader, report_gen, gui>>

\* KeyboardInterrupt is raised in the main thread inside the with block;
\* except Exception does not catch it
Interrupt ==
    /\ folder.pc = "pool"
    /\ folder' = [folder EXCEPT !.pc = "interrupted"]
    /\ UNCHANGED <<root, built, rows, call, workers, stats, pure, loader, report_gen, gui>>

\* the executor's __exit__ has waited for the pool threads; the exception
\* leaves _scan_parallel and scan_folder, whose frames are dropped, and
\* reaches main's except KeyboardInterrupt: return 130
InterruptExit ==
    /\ folder.pc = "interrupted"
    /\ \A w \in Workers : workers[w].pc \in {"returned", "collected"}
    /\ folder' = [folder EXCEPT !.pc = "exit130", !.findings = <<>>]
    /\ UNCHANGED <<root, built, rows, call, workers, stats, pure, loader, report_gen, gui>>

CancelLabels == {LabelFromTo}

AddCancelRow == AddRow(CancelLabels)

NextCancel ==
    AddCancelRow \/ ReturnTree \/ ScanFolder \/ PoolStep \/ PoolReturn
        \/ Interrupt \/ InterruptExit

SpecCancel == Init /\ [][NextCancel]_vars

----------------------------------------------------------------------------
(* build_tree over rows whose vendor column differs from row to row        *)

OrderVendors == {"Apache Software Foundation", "Apache Group"}

OrderLabels == {LabelTo, LabelLiteral}

AddOrderRow == AddRowFrom(OrderLabels, Vulns, OrderVendors)

NextOrder == AddOrderRow \/ ReturnTree

SpecOrder == Init /\ [][NextOrder]_vars

----------------------------------------------------------------------------
(* get_statistics called by the users of the tree (cli main, to_dict,      *)
(* __repr__) at any point between the insertions                           *)

\* the calls of get_statistics besides the one build_tree makes
MaxStatsCalls == 2

\* a record whose severity is SeverityLevel.UNKNOWN
VulnU == [bdu_id |-> "BDU:2014-00003", severity |-> "unknown"]

StatVulns == {VulnA, VulnB, VulnU}

StatLabels == {LabelTo, LabelLiteral}

AddStatRow == AddRowFrom(StatLabels, StatVulns, Vendors)

\* stats = tree.get_statistics()
GetStatistics ==
    /\ Len(stats) < MaxStatsCalls
    /\ root' = get_statistics(root).tree
    /\ stats' = Append(stats, [after |-> Len(rows), value |-> get_statistics(root).stats])
    /\ UNCHANGED <<built, rows, call, workers, folder, pure, loader, report_gen, gui>>

NextStats == AddStatRow \/ ReturnTree \/ GetStatistics

SpecStats == Init /\ [][NextStats]_vars

----------------------------------------------------------------------------
(* The static methods called on their own                                  *)

\* the longest version tuple compared
MaxKeyLen == 3

KeyParts == {0, 4, 8, 16}

\* the tuples _parse_version can return: never empty
Keys == UNION {[1..n -> KeyParts] : n \in 1..MaxKeyLen}

CompareCalls ==
    {[fn |-> "_compare_versions", args |-> <<version1, version2>>, pc |-> "call",
      out |-> NoneV] : version1 \in Keys, version2 \in Keys}

\* "8.4.0", "v12", "", "8..4", and a run of digits one longer than int(n)
\* converts
V840 == <<"8", ".", "4", ".", "0">>
V12 == <<"v", "1", "2">>
VEmpty == <<>>
VDots == <<"8", ".", ".", "4">>
VLongRun == [i \in 1..(IntMaxStrDigits + 1) |-> "1"]

VersionTexts == StrVersions \cup VersionLabels \cup {V840, V12, VEmpty, VDots, VLongRun}

ParseVersionCalls ==
    {[fn |-> "_parse_version", args |-> <<version_str>>, pc |-> "call", out |-> NoneV] :
        version_str \in VersionTexts}

\* "от 1 до 2 - 3", "1 - 2 от 3 до 4", "12", "ОТ 8.4", "до 9 от 8",
\* "до 1-2", "от 8.4 до 9 (x)", "от8 до 9"
RFromToHyphen == <<co, ct, " ", "1", " ", cd, co, " ", "2", " ", "-", " ", "3">>
RHyphenFromTo == <<"1", " ", "-", " ", "2", " ", co, ct, " ", "3", " ", cd, co, " ", "4">>
R12 == <<"1", "2">>
RFromUpper == <<cO, cT, " ", "8", ".", "4">>
RToFrom == <<cd, co, " ", "9", " ", co, ct, " ", "8">>
RToHyphen == <<cd, co, " ", "1", "-", "2">>
RTrailing == <<co, ct, " ", "8", ".", "4", " ", cd, co, " ", "9", " ", "(", "x", ")">>
RNoSpace == <<co, ct, "8", " ", cd, co, " ", "9">>

RangeTexts ==
    VersionLabels \cup {LabelBadRange, LabelDotBounds, RFromToHyphen, RHyphenFromTo, R12,
                        RFromUpper, RToFrom, RToHyphen, RTrailing, RNoSpace}

ParseVersionRangeCalls ==
    {[fn |-> "_parse_version_range", args |-> <<version_str>>, pc |-> "call",
      out |-> NoneV] : version_str \in RangeTexts}

PureCalls == CompareCalls \cup ParseVersionCalls \cup ParseVersionRangeCalls

InitPure ==
    /\ root = <<>>
    /\ built = FALSE
    /\ rows = <<>>
    /\ call = NoCall
    /\ workers = [w \in Workers |-> Idle]
    /\ stats = <<>>
    /\ folder = NoFolder
    /\ pure \in PureCalls
    /\ loader = NoLoader
    /\ report_gen = NoReport
    /\ gui = NoWorker

CompareVersions ==
    /\ pure.pc = "call" /\ pure.fn = "_compare_versions"
    /\ pure' = [pure EXCEPT !.pc = "returned",
                            !.out = _compare_versions(pure.args[1], pure.args[2])]
    /\ UNCHANGED <<root, built, rows, call, workers, stats, folder, loader, report_gen, gui>>

ParseVersion ==
    /\ pure.pc = "call" /\ pure.fn = "_parse_version"
    /\ pure' = [pure EXCEPT !.pc = "returned", !.out = _parse_version(pure.args[1])]
    /\ UNCHANGED <<root, built, rows, call, workers, stats, folder, loader, report_gen, gui>>

ParseVersionRange ==
    /\ pure.pc = "call" /\ pure.fn = "_parse_version_range"
    /\ pure' = [pure EXCEPT !.pc = "returned", !.out = _parse_version_range(pure.args[1])]
    /\ UNCHANGED <<root, built, rows, call, workers, stats, folder, loader, report_gen, gui>>

NextPure == CompareVersions \/ ParseVersion \/ ParseVersionRange

SpecPure == InitPure /\ [][NextPure]_vars

----------------------------------------------------------------------------
(* Vocabulary of the properties                                            *)

\* the occurrences of a record / of an id in a list
Count(list, vuln) == Cardinality({i \in DOMAIN list : list[i] = vuln})

CountId(list, bdu_id) == Cardinality({i \in DOMAIN list : list[i].bdu_id = bdu_id})

RECURSIVE SumLen(_, _)
SumLen(buckets, i) ==
    IF i > Len(buckets) THEN 0
    ELSE Len(buckets[i].vulnerabilities) + SumLen(buckets, i + 1)

\* the buckets of a software name in the tree, <<>> when it is unknown
BucketsOf(tree, name) ==
    IF IndexOfName(tree, name, 1) = 0 THEN <<>>
    ELSE tree[IndexOfName(tree, name, 1)].versions

\* the sub-list of the buckets whose label satisfies Keep
RECURSIVE Select(_, _, _)
Select(buckets, Keep(_), i) ==
    IF i > Len(buckets) THEN <<>>
    ELSE IF Keep(buckets[i].version)
         THEN <<buckets[i]>> \o Select(buckets, Keep, i + 1)
         ELSE Select(buckets, Keep, i + 1)

\* the label parses as a range with two valid bounds that contain the key of q
RangeContains ==
    [l \in VersionLabels |->
        [q \in StrVersions |->
            \E r \in {_parse_version_range(l)}, key \in {_parse_version(q)} :
                /\ r[1] # NoneV /\ r[2] # NoneV /\ key.ok
                /\ \E lower \in {_parse_version(r[1])}, upper \in {_parse_version(r[2])} :
                      /\ lower.ok /\ upper.ok
                      /\ _compare_versions(lower.parts, key.parts) <= 0
                      /\ _compare_versions(key.parts, upper.parts) <= 0]]

\* the label parses as a range with two valid bounds
RangeParses ==
    [l \in VersionLabels |->
        \E r \in {_parse_version_range(l)} :
            /\ r[1] # NoneV /\ r[2] # NoneV
            /\ _parse_version(r[1]).ok /\ _parse_version(r[2]).ok]

\* q occurs in the label
Occurs == [l \in VersionLabels |-> [q \in StrVersions |-> Contains(l, q)]]

InRange(l, q) == IsStr(l) /\ RangeContains[l][q]

OutOfRange(l, q) == IsStr(l) /\ RangeParses[l] /\ TargetParts[q].ok /\ ~RangeContains[l][q]

Matches(l, q) == IsStr(l) /\ TargetParts[q].ok /\ (RangeContains[l][q] \/ Occurs[l][q])

\* the caller holds the list of a call for a known software and a version
\* that is a str and equals no stored label
ScanCall ==
    /\ call # NoCall
    /\ call.version # NoneV
    /\ BucketsOf(root, call.name) # <<>>
    /\ \A i \in DOMAIN BucketsOf(root, call.name) :
          BucketsOf(root, call.name)[i].version # call.version

----------------------------------------------------------------------------
(* C1..C10                                                                 *)

\* C1: after any sequence of add_vulnerability calls, for every inserted
\* (name, label, vulnerability) the list find_vulnerabilities(name, label)
\* returns holds exactly one record with that vulnerability's bdu_id.
C1_InsertedIdOccursOnce ==
    call # NoCall =>
        \A i \in DOMAIN rows :
            (rows[i].name = call.name /\ rows[i].version = call.version)
                => CountId(call.result, rows[i].vuln.bdu_id) = 1

\* no bucket of the tree holds two records with one bdu_id
NoDuplicateIds(tree) ==
    \A s \in DOMAIN tree : \A v \in DOMAIN tree[s].versions :
        \A i, j \in DOMAIN tree[s].versions[v].vulnerabilities :
            i # j => tree[s].versions[v].vulnerabilities[i].bdu_id
                        # tree[s].versions[v].vulnerabilities[j].bdu_id

\* the bucket the row goes to holds a record with the row's bdu_id
IdInBucket(tree, row) ==
    \E i \in DOMAIN BucketsOf(tree, row.name) :
        /\ BucketsOf(tree, row.name)[i].version = row.version
        /\ CountId(BucketsOf(tree, row.name)[i].vulnerabilities, row.vuln.bdu_id) > 0

\* C2: no version bucket ever holds two records with the same bdu_id, and an
\* add_vulnerability whose record's bdu_id is already in the target bucket
\* leaves the whole index unchanged.
C2_BucketIdsUnique ==
    [][/\ NoDuplicateIds(root')
       /\ (Len(rows') > Len(rows) /\ IdInBucket(root, rows'[Len(rows')]))
              => root' = root]_vars

\* C3: for a known software and a version that equals no stored label, every
\* bucket whose label parses as a range with two valid bounds containing the
\* version's key (bounds included) has all its vulnerabilities in the result.
C3_InRangeBucketReturned ==
    ScanCall =>
        \A i \in DOMAIN BucketsOf(root, call.name) :
            LET b == BucketsOf(root, call.name)[i]
            IN  InRange(b.version, call.version) =>
                    \A k \in DOMAIN b.vulnerabilities :
                        Count(call.result, b.vulnerabilities[k]) > 0

\* the version is a bound of the range label and occurs nowhere in its text
C3_Witness ==
    /\ ScanCall
    /\ call.version \in {VLower, VUpper}
    /\ Len(BucketsOf(root, call.name)) = 2
    /\ BucketsOf(root, call.name)[2].version = LabelFromTo
    /\ ~Matches(BucketsOf(root, call.name)[1].version, call.version)
    /\ call.result = BucketsOf(root, call.name)[2].vulnerabilities

\* the buckets other than the i-th that hold the record
OthersHolding(buckets, i, vuln) ==
    Cardinality({j \in DOMAIN buckets :
                    j # i /\ Count(buckets[j].vulnerabilities, vuln) > 0})

\* C4: for a known software and a version that equals no stored label, a
\* bucket whose label parses as a range with two valid bounds that do not
\* contain the version's key contributes nothing to the result: a record of
\* it occurs in the result only as often as other buckets hold it.
C4_OutOfRangeBucketNotReturned ==
    ScanCall =>
        \A i \in DOMAIN BucketsOf(root, call.name) :
            LET b == BucketsOf(root, call.name)[i]
            IN  OutOfRange(b.version, call.version) =>
                    \A k \in DOMAIN b.vulnerabilities :
                        Count(call.result, b.vulnerabilities[k])
                            <= OthersHolding(BucketsOf(root, call.name), i,
                                             b.vulnerabilities[k])

\* the buckets of the call's software whose label the version matches, by
\* its parsed range or by occurring in it
MatchingBuckets ==
    Select(BucketsOf(root, call.name), LAMBDA l : Matches(l, call.version), 1)

\* the buckets among them that hold the record
Holding(buckets, vuln) ==
    Cardinality({j \in DOMAIN buckets : Count(buckets[j].vulnerabilities, vuln) > 0})

\* the version lies inside at least two stored range labels
InTwoRanges ==
    /\ ScanCall
    /\ \E i, j \in DOMAIN BucketsOf(root, call.name) :
          /\ i # j
          /\ InRange(BucketsOf(root, call.name)[i].version, call.version)
          /\ InRange(BucketsOf(root, call.name)[j].version, call.version)

\* C5: when the version (equal to no stored label) lies inside two or more
\* stored range labels, the result is the concatenation of the matching
\* buckets: its length is the sum of their lengths and a record occurs
\* once for every matching bucket that holds it, twice when two do.
C5_OverlappingRangesConcatenated ==
    InTwoRanges =>
        /\ Len(call.result) = SumLen(MatchingBuckets, 1)
        /\ \A vuln \in Vulns : Count(call.result, vuln) = Holding(MatchingBuckets, vuln)

\* one record sits in both ranges and is returned twice
C5_Witness ==
    /\ InTwoRanges
    /\ Len(MatchingBuckets) = 2
    /\ \E vuln \in Vulns : Count(call.result, vuln) = 2

\* the position of the label the call's version equals, 0 when there is none
ExactAt == IndexOfVersion(BucketsOf(root, call.name), call.version, 1)

\* C6: when the version equals a stored label of the software the result is
\* that bucket's list and nothing else, and no version or range is parsed.
C6_ExactMatchFirst ==
    (call # NoCall /\ call.version # NoneV /\ ExactAt # 0) =>
        /\ call.result = BucketsOf(root, call.name)[ExactAt].vulnerabilities
        /\ call.parse_calls = 0

\* the label equalled looks like a range and another stored range label
\* contains the version
C6_Witness ==
    /\ call # NoCall /\ call.version = LabelHyphen /\ ExactAt # 0
    /\ \E i \in DOMAIN BucketsOf(root, call.name) :
          i # ExactAt /\ InRange(BucketsOf(root, call.name)[i].version, call.version)
    /\ Len(call.result) = 1

\* C7: find_vulnerabilities(name, None) for a known software returns every
\* record of every bucket, as many as the bucket lengths sum to.
C7_NoneReturnsAllBuckets ==
    (call # NoCall /\ call.version = NoneV /\ BucketsOf(root, call.name) # <<>>) =>
        /\ Len(call.result) = SumLen(BucketsOf(root, call.name), 1)
        /\ \A vuln \in Vulns :
              Count(call.result, vuln) = Holding(BucketsOf(root, call.name), vuln)

C7_Witness ==
    /\ call # NoCall /\ call.version = NoneV
    /\ Len(BucketsOf(root, call.name)) = 2
    /\ Len(call.result) = 2

\* no row has put the call's software name into the tree
UnknownName == \A i \in DOMAIN rows : rows[i].name # call.name

\* C8: for a software name that is not in the index the result is empty for
\* every version argument, no exception leaves the call, and the name has no
\* entry afterwards.
C8_UnknownSoftwareEmpty ==
    (call # NoCall /\ UnknownName) =>
        /\ call.result = <<>>
        /\ ~call.raised
        /\ IndexOfName(root, call.name, 1) = 0

\* the other software is in the tree and the version looks like a range
C8_Witness ==
    /\ call # NoCall /\ UnknownName
    /\ call.version = LabelHyphen
    /\ Len(root) = 1
    /\ call.result = <<>>

C10_ReadOnlyInterleavingSafe ==
    [][built =>
        /\ root' = root
        /\ \A w \in Workers :
              workers'[w].pc = "returned" =>
                  workers'[w].result =
                      find_vulnerabilities(root, workers'[w].name,
                                           workers'[w].version).result]_vars

\* a thread has returned the two buckets of its scan while the other thread
\* is between two iterations of its own
C10_Witness ==
    /\ workers["w1"].pc = "returned" /\ workers["w1"].st.i = 3
    /\ Len(workers["w1"].result) = 2
    /\ workers["w2"].pc = "scan" /\ workers["w2"].st.i = 2

----------------------------------------------------------------------------
(* C11..C20                                                                *)

\* the tree add_vulnerability builds from the tuples, in their order
RECURSIVE FoldRows(_, _, _)
FoldRows(tuples, i, tree) ==
    IF i > Len(tuples) THEN tree
    ELSE FoldRows(tuples, i + 1,
                  add_vulnerability(tree, tuples[i].name, tuples[i].version, tuples[i].vuln,
                                    tuples[i].vendor, tuples[i].software_type))

\* the content of a tree with the order inside its maps and lists forgotten
ContentOf(tree) ==
    {[name |-> tree[s].name, vendor |-> tree[s].vendor,
      software_type |-> tree[s].software_type,
      versions |-> {[version |-> tree[s].versions[v].version,
                     vulnerabilities |-> {tree[s].versions[v].vulnerabilities[k] :
                                            k \in DOMAIN tree[s].versions[v].vulnerabilities}] :
                        v \in DOMAIN tree[s].versions}] : s \in DOMAIN tree}

\* the orders of n tuples
Orders(n) == {p \in [1..n -> 1..n] : \A i, j \in 1..n : p[i] = p[j] => i = j}

\* C11: the index built by add_vulnerability from the same tuples in any
\* order has the same content: the same names with the same vendor and
\* category, the same labels, the same set of records in each bucket.
C11_InsertionOrderIndependent ==
    \A p \in Orders(Len(rows)) :
        ContentOf(FoldRows([i \in 1..Len(rows) |-> rows[p[i]]], 1, <<>>)) = ContentOf(root)

\* C12: in every dict get_statistics returns, the five per-severity counts
\* (critical, high, medium, low, unknown) sum to total_vulnerabilities.
C12_SeverityCountsSumToTotal ==
    \A i \in DOMAIN stats :
        stats[i].value.critical_vulnerabilities + stats[i].value.high_vulnerabilities
          + stats[i].value.medium_vulnerabilities + stats[i].value.low_vulnerabilities
          + stats[i].value.unknown_vulnerabilities
            = stats[i].value.total_vulnerabilities

\* a dict that counts a record of unknown severity beside a high one
C12_Witness ==
    \E i \in DOMAIN stats :
        /\ stats[i].value.unknown_vulnerabilities = 1
        /\ stats[i].value.high_vulnerabilities = 1
        /\ stats[i].value.total_vulnerabilities = 2

\* the first n rows folded into the tree
RowsBefore(n) == {rows[k] : k \in 1..n}

\* C13: every dict get_statistics returns equals a recomputation over the
\* index of that moment: total_software the distinct names, total_versions
\* the distinct (name, label) pairs, total_vulnerabilities the sum of the
\* bucket lengths, a record in two buckets of one software counted twice.
C13_StatisticsAreRecomputed ==
    \A i \in DOMAIN stats :
        /\ stats[i].value.total_software
              = Cardinality({r.name : r \in RowsBefore(stats[i].after)})
        /\ stats[i].value.total_versions
              = Cardinality({<<r.name, r.version>> : r \in RowsBefore(stats[i].after)})
        /\ stats[i].value.total_vulnerabilities
              = Cardinality({<<r.name, r.version, r.vuln>> : r \in RowsBefore(stats[i].after)})
        /\ stats[i].after = Len(rows) =>
              stats[i].value.total_vulnerabilities
                = SumLen(BucketsOf(root, "Apache"), 1) + SumLen(BucketsOf(root, "Firefox"), 1)

\* one record sits in two buckets of one software and counts twice
C13_Witness ==
    \E i \in DOMAIN stats :
        /\ stats[i].after = 2
        /\ rows[1].name = rows[2].name /\ rows[1].vuln = rows[2].vuln
        /\ stats[i].value.total_software = 1
        /\ stats[i].value.total_versions = 2
        /\ stats[i].value.total_vulnerabilities = 2

\* C14: get_statistics leaves the index unchanged, and two calls with no
\* add_vulnerability between them return identical dicts.
C14_StatisticsHasNoSideEffects ==
    [][/\ stats' # stats => root' = root
       /\ \A i, j \in DOMAIN stats' :
             stats'[i].after = stats'[j].after => stats'[i].value = stats'[j].value]_vars

\* two calls on the same non-empty index
C14_Witness ==
    /\ Len(stats) >= 2
    /\ stats[1].after = stats[2].after
    /\ stats[1].value.total_vulnerabilities = 2

\* a is before b in the lexicographic order, a strict prefix before the
\* tuple it is a prefix of
LexLess(a, b) ==
    \E k \in 1..Len(b) :
        /\ \A j \in 1..(k - 1) : j <= Len(a) /\ a[j] = b[j]
        /\ k > Len(a) \/ a[k] < b[k]

\* the range test of the label "from 8.4.0 to 8.4.16" on the key (8, 4)
LowerBound840Contains84 == InParsedRange(LabelFromTo, <<8, 4>>)

\* C15: _compare_versions orders two tuples lexicographically, a strict
\* prefix being less than the longer tuple: compare((8,4), (8,4,0)) is
\* 'less', and a range with lower bound 8.4.0 does not contain the key 8.4.
C15_CompareIsLexicographic ==
    (pure.fn = "_compare_versions" /\ pure.pc = "returned") =>
        /\ pure.out = -1 <=> LexLess(pure.args[1], pure.args[2])
        /\ pure.out = 1 <=> LexLess(pure.args[2], pure.args[1])
        /\ pure.out = 0 <=> pure.args[1] = pure.args[2]
        /\ (pure.args = <<(<<8, 4>>), (<<8, 4, 0>>)>>) => pure.out = -1
        /\ ~LowerBound840Contains84

C15_Witness ==
    /\ pure.fn = "_compare_versions" /\ pure.pc = "returned"
    /\ pure.args = <<(<<8, 4>>), (<<8, 4, 0>>)>>
    /\ pure.out = -1

\* the maximal runs of decimal digits of the text, as <<first, last>>
DigitRuns(text) ==
    {<<a, b>> \in {a \in DOMAIN text : text[a] \in Digits
                                       /\ (a = 1 \/ text[a - 1] \notin Digits)}
                  \X {b \in DOMAIN text : text[b] \in Digits
                                         /\ (b = Len(text) \/ text[b + 1] \notin Digits)} :
        a <= b /\ \A k \in a..b : text[k] \in Digits}

RECURSIVE Pow10(_)
Pow10(n) == IF n = 0 THEN 1 ELSE 10 * Pow10(n - 1)

\* the unsigned integer the digits text[a..b] write
RECURSIVE RunValue(_, _, _)
RunValue(text, a, b) ==
    IF a > b THEN 0
    ELSE DigitVal(text[a]) * Pow10(b - a) + RunValue(text, a + 1, b)

\* the k-th number returned is the value of the k-th digit run of the text
PartsAreDigitRuns(text, parts) ==
    /\ Len(parts) = Cardinality(DigitRuns(text))
    /\ \A run \in DigitRuns(text) :
          parts[Cardinality({r \in DigitRuns(text) : r[1] <= run[1]})]
              = RunValue(text, run[1], run[2])

\* a digit run of the text is longer than int(n) converts
HasOverlongRun(text) ==
    \E run \in DigitRuns(text) : run[2] - run[1] + 1 > IntMaxStrDigits

\* C16, as amended: _parse_version returns the maximal digit runs of the
\* text in order of appearance as unsigned integers; it returns no key
\* exactly when the text has no digit or has a digit run longer than int()
\* converts, and never raises.
C16_ParseVersionDigitRunsOrNoKey ==
    (pure.fn = "_parse_version" /\ pure.pc = "returned") =>
        /\ pure.out.ok <=> /\ \E i \in DOMAIN pure.args[1] : pure.args[1][i] \in Digits
                           /\ ~HasOverlongRun(pure.args[1])
        /\ pure.out.ok => PartsAreDigitRuns(pure.args[1], pure.out.parts)
        /\ pure.args[1] = V840 => pure.out.parts = <<8, 4, 0>>
        /\ pure.args[1] = V12 => pure.out.parts = <<12>>
        /\ pure.args[1] = VLatest => ~pure.out.ok

\* the text is one run of digits, one digit longer than int() converts
C16_Witness ==
    /\ pure.fn = "_parse_version" /\ pure.pc = "returned"
    /\ pure.args[1] = VLongRun
    /\ ~pure.out.ok

\* C16: _parse_version returns the maximal digit runs of the text in order
\* of appearance as unsigned integers, and no key exactly when the text has
\* no digit: "8.4.0" gives (8,4,0), "v12" gives (12), "latest" no key.
C16_ParseVersionDigitRuns ==
    (pure.fn = "_parse_version" /\ pure.pc = "returned") =>
        /\ pure.out.ok <=> \E i \in DOMAIN pure.args[1] : pure.args[1][i] \in Digits
        /\ pure.out.ok => PartsAreDigitRuns(pure.args[1], pure.out.parts)
        /\ pure.args[1] = V840 => pure.out.parts = <<8, 4, 0>>
        /\ pure.args[1] = V12 => pure.out.parts = <<12>>
        /\ pure.args[1] = VLatest => ~pure.out.ok

\* the maximal runs of digits and dots of the text, as <<first, last>>
NumberSpans(text) ==
    {<<a, b>> \in {a \in DOMAIN text : text[a] \in DigitDot
                                       /\ (a = 1 \/ text[a - 1] \notin DigitDot)}
                  \X {b \in DOMAIN text : text[b] \in DigitDot
                                         /\ (b = Len(text) \/ text[b + 1] \notin DigitDot)} :
        a <= b /\ \A k \in a..b : text[k] \in DigitDot}

\* the two letters at p and p + 1, in either case
WordAt(text, p, word) ==
    /\ p >= 1 /\ p + 1 <= Len(text)
    /\ text[p] \in word[1] /\ text[p + 1] \in word[2]

FromWord == <<{co, cO}, {ct, cT}>>

ToWord == <<{cd, cD}, {co, cO}>>

\* text[a..b-1] is blank: one or more blanks, or any number of them
Blanks(text, a, b) == a < b /\ \A k \in a..(b - 1) : text[k] = " "

BlanksOrNone(text, a, b) == a <= b /\ \A k \in a..(b - 1) : text[k] = " "

\* the places <<p, X, Y>> where the text reads 'from X to Y'
FromToPlaces(text) ==
    {m \in (DOMAIN text) \X NumberSpans(text) \X NumberSpans(text) :
        /\ WordAt(text, m[1], FromWord)
        /\ Blanks(text, m[1] + 2, m[2][1])
        /\ \E q \in DOMAIN text :
              /\ Blanks(text, m[2][2] + 1, q)
              /\ WordAt(text, q, ToWord)
              /\ Blanks(text, q + 2, m[3][1])}

\* the places <<p, X, Y>> where the text reads 'X - Y'
HyphenPlaces(text) ==
    {m \in (DOMAIN text) \X NumberSpans(text) \X NumberSpans(text) :
        /\ m[1] = m[2][1]
        /\ \E q \in DOMAIN text :
              /\ BlanksOrNone(text, m[2][2] + 1, q)
              /\ text[q] = "-"
              /\ BlanksOrNone(text, q + 1, m[3][1])}

\* the places <<p, X>> where the text reads 'from X' / 'to X'
WordPlaces(text, word) ==
    {m \in (DOMAIN text) \X NumberSpans(text) :
        /\ WordAt(text, m[1], word)
        /\ Blanks(text, m[1] + 2, m[2][1])}

\* the leftmost of the places
Leftmost(places) == CHOOSE m \in places : \A n \in places : m[1] <= n[1]

SpanText(text, span) == SubSeq(text, span[1], span[2])

\* what the five rules in their order give for the text
RangeByRules(text) ==
    IF FromToPlaces(text) # {}
    THEN <<SpanText(text, Leftmost(FromToPlaces(text))[2]),
           SpanText(text, Leftmost(FromToPlaces(text))[3])>>
    ELSE IF HyphenPlaces(text) # {}
    THEN <<SpanText(text, Leftmost(HyphenPlaces(text))[2]),
           SpanText(text, Leftmost(HyphenPlaces(text))[3])>>
    ELSE IF WordPlaces(text, FromWord) # {}
    THEN <<SpanText(text, Leftmost(WordPlaces(text, FromWord))[2]), UpperSentinel>>
    ELSE IF WordPlaces(text, ToWord) # {}
    THEN <<LowerSentinel, SpanText(text, Leftmost(WordPlaces(text, ToWord))[2])>>
    ELSE <<NoneV, NoneV>>

\* C17: _parse_version_range tries 'from X to Y', 'X - Y', 'from X' (upper
\* bound "999.999.999"), 'to X' (lower bound "0.0.0") in this order, the
\* first match wins, otherwise none; a text matching rules 1 and 2 gives
\* the rule-1 bounds, and "12" gives none.
C17_RangeRulesInOrder ==
    (pure.fn = "_parse_version_range" /\ pure.pc = "returned") =>
        /\ pure.out = RangeByRules(pure.args[1])
        /\ pure.args[1] = LabelFromTo =>
              pure.out = <<V840, (<<"8", ".", "4", ".", "1", "6">>)>>
        /\ pure.args[1] = RFromToHyphen => pure.out = <<(<<"1">>), (<<"2">>)>>
        /\ pure.args[1] = RHyphenFromTo => pure.out = <<(<<"3">>), (<<"4">>)>>
        /\ pure.args[1] = RToFrom => pure.out = <<(<<"8">>), UpperSentinel>>
        /\ pure.args[1] = R12 => pure.out = <<NoneV, NoneV>>

\* the text matches rule 1 and rule 2 and the rule-1 bounds are returned
C17_Witness ==
    /\ pure.fn = "_parse_version_range" /\ pure.pc = "returned"
    /\ pure.args[1] = RFromToHyphen
    /\ FromToPlaces(pure.args[1]) # {} /\ HyphenPlaces(pure.args[1]) # {}
    /\ pure.out = <<(<<"1">>), (<<"2">>)>>

\* the finding of the pool thread is in the list
FindingIn(list, w) ==
    \E i \in DOMAIN list :
        list[i] = [file |-> w, vulnerabilities |-> workers[w].result]

\* C18: after a folder scan is cancelled during its worker-pool phase the
\* index is the one build_tree left, and the findings the pool threads had
\* handed over before the cancellation are with the caller.
C18_CancelKeepsIndexAndFindings ==
    folder.pc = "exit130" =>
        /\ root = FoldRows(rows, 1, <<>>)
        /\ \A w \in Workers :
              workers[w].pc = "collected" =>
                  /\ folder.main_findings.assigned
                  /\ FindingIn(folder.main_findings.value, w)

HasDigit(text) == \E i \in DOMAIN text : text[i] \in Digits

\* C19: when the version equals no stored label and has no decimal digit,
\* find_vulnerabilities returns an empty list and scans no label, also when
\* the version's text occurs in a stored label of the software.
C19_DigitFreeQueryReturnsEmpty ==
    (ScanCall /\ ~HasDigit(call.version)) =>
        /\ call.result = <<>>
        /\ call.scanned = 0
        /\ ~call.raised

\* "(x)" is asked of a software that has the label "8.4.5 (x)"
C19_Witness ==
    /\ ScanCall
    /\ call.version = VParen
    /\ \E i \in DOMAIN BucketsOf(root, call.name) :
          /\ BucketsOf(root, call.name)[i].version = LabelLiteral
          /\ Occurs[LabelLiteral][VParen]
    /\ call.result = <<>>

\* q occurs in l: some place of l reads q
OccursIn(l, q) ==
    \E i \in 0..(Len(l) - Len(q)) : \A k \in 1..Len(q) : l[i + k] = q[k]

FallbackOccurs == [l \in FallbackLabels |-> [q \in StrVersions |-> OccursIn(l, q)]]

\* the three kinds of label of C20: one suggests no range, one
\* suggests a range that does not parse, one parses to bounds without digits
FallbackKinds ==
    /\ ~SuggestsRange(LabelLiteral)
    /\ SuggestsRange(LabelBadRange)
    /\ _parse_version_range(LabelBadRange) = <<NoneV, NoneV>>
    /\ SuggestsRange(LabelDotBounds)
    /\ _parse_version_range(LabelDotBounds) = <<(<<".">>), (<<".">>)>>
    /\ ~_parse_version(<<".">>).ok

\* the lists of the buckets whose label the version occurs in, in order
RECURSIVE OccurringBuckets(_, _, _)
OccurringBuckets(buckets, q, i) ==
    IF i > Len(buckets) THEN <<>>
    ELSE IF FallbackOccurs[buckets[i].version][q]
         THEN buckets[i].vulnerabilities \o OccurringBuckets(buckets, q, i + 1)
         ELSE OccurringBuckets(buckets, q, i + 1)

\* C20: for a version with a digit that equals no stored label, a label
\* that suggests no range, or suggests one that does not parse or whose
\* bounds have no digit, contributes its bucket exactly when the version's
\* text occurs in the label.
C20_SubstringFallback ==
    /\ FallbackKinds
    /\ (ScanCall /\ HasDigit(call.version)) =>
          call.result = OccurringBuckets(BucketsOf(root, call.name), call.version, 1)

\* "8" occurs inside "x-8.4" and inside "from . to . 8", at the start of
\* neither, and both buckets are returned
C20_Witness ==
    /\ ScanCall
    /\ call.version = V8
    /\ Len(BucketsOf(root, call.name)) = 2
    /\ BucketsOf(root, call.name)[1].version = LabelBadRange
    /\ BucketsOf(root, call.name)[2].version = LabelDotBounds
    /\ call.result = BucketsOf(root, call.name)[1].vulnerabilities
                        \o BucketsOf(root, call.name)[2].vulnerabilities

----------------------------------------------------------------------------
(* Open-ended labels and their sentinels                                   *)

\* a is not after b in the lexicographic order
LexLeq(a, b) == a = b \/ LexLess(a, b)

\* the key of the bound X of the labels "from X"
LowerBoundOf == [l \in {LabelFrom2018, LabelFrom} |->
                    IF l = LabelFrom2018 THEN <<2018>> ELSE <<8, 5>>]

\* the key of the bound X of the labels "to X"
UpperBoundOf == [l \in {LabelTo} |-> <<9>>]

\* the caller holds the list of a call whose version has a key
KeyedCall == call # NoCall /\ call.version # NoneV /\ TargetParts[call.version].ok

\* every record of the i-th bucket of the call's software is in the result
BucketReturned(i) ==
    \A k \in DOMAIN BucketsOf(root, call.name)[i].vulnerabilities :
        Count(call.result, BucketsOf(root, call.name)[i].vulnerabilities[k]) > 0

\* C21: the upper sentinel of a label "from X" is maximal: its key
\* (999,999,999) compares greater than or equal to the key of every
\* parseable query version, so the bucket of a stored label "from X" is
\* returned for every query version whose key is at or after the key of X.
C21_UpperSentinelMaximal ==
    KeyedCall =>
        /\ _compare_versions(_parse_version(UpperSentinel).parts,
                             TargetParts[call.version].parts) >= 0
        /\ \A i \in DOMAIN BucketsOf(root, call.name) :
              LET l == BucketsOf(root, call.name)[i].version
              IN  (l \in DOMAIN LowerBoundOf
                   /\ LexLeq(LowerBoundOf[l], TargetParts[call.version].parts))
                      => BucketReturned(i)

\* C22: the lower sentinel of a label "to X" is minimal: its key (0,0,0)
\* compares less than or equal to the key of every parseable query version,
\* so the bucket of a stored label "to X" is returned for every query
\* version whose key is at or before the key of X, "0" and "0.0" included.
C22_LowerSentinelMinimal ==
    KeyedCall =>
        /\ _compare_versions(_parse_version(LowerSentinel).parts,
                             TargetParts[call.version].parts) <= 0
        /\ \A i \in DOMAIN BucketsOf(root, call.name) :
              LET l == BucketsOf(root, call.name)[i].version
              IN  (l \in DOMAIN UpperBoundOf
                   /\ LexLeq(TargetParts[call.version].parts, UpperBoundOf[l]))
                      => BucketReturned(i)

----------------------------------------------------------------------------
(* A version that equals one label and lies inside another                 *)

\* the call's version equals a stored label of the software and lies inside
\* another stored range label of it
ExactPlusRange ==
    /\ call # NoCall /\ call.version # NoneV /\ ExactAt # 0
    /\ \E i \in DOMAIN BucketsOf(root, call.name) :
          i # ExactAt /\ InRange(BucketsOf(root, call.name)[i].version, call.version)

\* the buckets beside the exact one whose range contains the call's version
RangesBesideExact ==
    Select(BucketsOf(root, call.name),
           LAMBDA l : l # call.version /\ InRange(l, call.version), 1)

\* C23 as stated: when the version equals a stored label and lies inside
\* another stored range label of the software, the result is the
\* concatenation of both buckets, a record shared by both occurring twice.
C23_ExactPlusRangeConcatenated ==
    ExactPlusRange =>
        /\ Len(call.result) = Len(BucketsOf(root, call.name)[ExactAt].vulnerabilities)
                                + SumLen(RangesBesideExact, 1)
        /\ \A vuln \in Vulns :
              Count(call.result, vuln)
                  = Count(BucketsOf(root, call.name)[ExactAt].vulnerabilities, vuln)
                    + Holding(RangesBesideExact, vuln)

\* C23: when the version equals a stored label and lies inside another
\* stored range label of the software, the result is the bucket of the
\* equalled label alone, its records kept as stored (two records that share
\* a bdu_id both stay); the range bucket adds nothing.
C23_ExactBucketAlone ==
    ExactPlusRange =>
        /\ Len(call.result) = Len(BucketsOf(root, call.name)[ExactAt].vulnerabilities)
        /\ \A vuln \in Vulns :
              Count(call.result, vuln)
                  = Count(BucketsOf(root, call.name)[ExactAt].vulnerabilities, vuln)
        /\ call.path = "exact"

\* "8.4 - 9.0" is a stored label and lies inside "from 8.4.0 to 8.4.16",
\* whose bucket holds a record the result lacks
C23_Witness ==
    /\ ExactPlusRange
    /\ call.version = LabelHyphen
    /\ \E i \in DOMAIN BucketsOf(root, call.name) :
          /\ BucketsOf(root, call.name)[i].version = LabelFromTo
          /\ \E k \in DOMAIN BucketsOf(root, call.name)[i].vulnerabilities :
                Count(call.result, BucketsOf(root, call.name)[i].vulnerabilities[k]) = 0
    /\ Len(call.result) = 1

----------------------------------------------------------------------------
(* One contribution for each bucket                                        *)

\* C24: in one call with a version that is not None every bucket of the
\* software contributes its records at most once, also when its label
\* contains the version both as a parsed range and as a text: a record
\* occurs in the result at most once for each bucket that holds it, and the
\* result is no longer than the buckets together.
C24_BucketContributesAtMostOnce ==
    (call # NoCall /\ call.version # NoneV) =>
        /\ \A vuln \in SentinelVulns :
              Count(call.result, vuln) <= Holding(BucketsOf(root, call.name), vuln)
        /\ Len(call.result) <= SumLen(BucketsOf(root, call.name), 1)

\* "8.5" against the single label "from 8.5": the key is the lower bound of
\* the range and the text occurs in the label; the bucket is returned once
C24_Witness ==
    /\ call # NoCall /\ call.version = V85
    /\ LabelTests[LabelFrom][V85].in_range
    /\ LabelTests[LabelFrom][V85].substring
    /\ Len(BucketsOf(root, call.name)) = 1
    /\ BucketsOf(root, call.name)[1].version = LabelFrom
    /\ Len(BucketsOf(root, call.name)[1].vulnerabilities) = 2
    /\ call.result = BucketsOf(root, call.name)[1].vulnerabilities

----------------------------------------------------------------------------
(* The returned list and the index                                         *)

\* C25: the list find_vulnerabilities returned is independent of the index
\* on every path (unknown software, None, exact label, scan): appending to
\* it or removing from it changes no bucket, and so no later result of
\* find_vulnerabilities or get_statistics.
C25_ReturnedListIndependent ==
    [][(AppendToResult \/ RemoveFromResult) =>
          /\ root' = root
          /\ StatisticsOf(root') = StatisticsOf(root)
          /\ \A software_name \in SoftwareNames, version \in AliasVersions :
                find_vulnerabilities(root', software_name, version).result
                    = find_vulnerabilities(root, software_name, version).result]_vars

----------------------------------------------------------------------------
(* The order of the keys                                                   *)

\* C26: _compare_versions is a total order on the keys: compare(a, b) is
\* the opposite of compare(b, a); it is 0 exactly when a = b; and
\* compare(a, b) <= 0 with compare(b, c) <= 0 gives compare(a, c) <= 0, so
\* a range lower <= key <= upper that contains a key has lower <= upper.
C26_CompareIsTotalOrder ==
    (pure.fn = "_compare_versions" /\ pure.pc = "returned") =>
        /\ pure.out \in {-1, 0, 1}
        /\ pure.out = 0 - _compare_versions(pure.args[2], pure.args[1])
        /\ pure.out = 0 <=> pure.args[1] = pure.args[2]
        /\ \A c \in Keys :
              (pure.out <= 0 /\ _compare_versions(pure.args[2], c) <= 0)
                  => _compare_versions(pure.args[1], c) <= 0

\* (8,4,0) <= (8,4,16) has returned, a lower bound against the key of a
\* version inside the range "from 8.4.0 to 8.4.16"
C26_Witness ==
    /\ pure.fn = "_compare_versions" /\ pure.pc = "returned"
    /\ pure.args = <<(<<8, 4, 0>>), (<<8, 4, 16>>)>>
    /\ pure.out = -1
    /\ _compare_versions(<<8, 4, 16>>, <<8, 4, 16>>) = 0
    /\ _compare_versions(<<8, 4, 16>>, <<8, 4, 0>>) = 1

----------------------------------------------------------------------------
(* The two scan modes                                                      *)

\* the calls progress_callback received are (1, N), (2, N), ... in order
CountsUp(progress) ==
    \A j \in DOMAIN progress : progress[j] = <<j, Len(folder.files)>>

\* the findings hold what the outcomes prescribe for each file
AsOutcomes(findings) ==
    \A k \in DOMAIN folder.files :
        /\ Count(findings, ResultFinding(folder.files[k]))
              = IF folder.outcome[k] = "finding" THEN 1 ELSE 0
        /\ Count(findings, EmptyFinding(folder.files[k]))
              = IF folder.outcome[k] = "raises" THEN 1 ELSE 0

\* C27: on the same file list and the same outcome of scan_file for each
\* file, _scan_parallel and _scan_sequential return the same multiset of
\* findings whatever order the futures complete in: one finding for each
\* file whose scan returned one, one empty finding for each file whose scan
\* raised, none for a file whose scan returned None; and progress_callback
\* is called once for each file with the counts 1, 2, ..., N of N.
C27_ParallelEqualsSequential ==
    /\ CountsUp(folder.seq.progress) /\ CountsUp(folder.par.progress)
    /\ folder.seq.pc = "returned" =>
          /\ AsOutcomes(folder.seq.findings)
          /\ Len(folder.seq.progress) = Len(folder.files)
    /\ folder.par.pc = "returned" =>
          /\ AsOutcomes(folder.par.findings)
          /\ Len(folder.par.progress) = Len(folder.files)
    /\ (folder.seq.pc = "returned" /\ folder.par.pc = "returned") =>
          /\ Len(folder.seq.findings) = Len(folder.par.findings)
          /\ \A j \in DOMAIN folder.seq.findings :
                Count(folder.par.findings, folder.seq.findings[j])
                    = Count(folder.seq.findings, folder.seq.findings[j])

\* three files, one of each outcome; the futures completed in another order
\* than the files are listed in, and both modes have returned
C27_Witness ==
    /\ folder.seq.pc = "returned" /\ folder.par.pc = "returned"
    /\ Len(folder.files) = 3
    /\ folder.outcome = <<"raises", "none", "finding">>
    /\ folder.par.findings = <<ResultFinding("f3"), EmptyFinding("f1")>>
    /\ folder.seq.findings = <<EmptyFinding("f1"), ResultFinding("f3")>>
    /\ folder.par.progress = <<(<<1, 3>>), (<<2, 3>>), (<<3, 3>>)>>

----------------------------------------------------------------------------
(* The cache of the loader                                                 *)

\* C28: after any sequence of load_bdu and clear_cache calls, a
\* load_bdu(file_path, use_cache=True) returns the tree that parsing
\* file_path produces; a cache written while loading one data file is never
\* returned for a load of another data file.
C28_CacheReturnsParsedTree ==
    \A i \in DOMAIN loader.calls :
        (loader.calls[i].op = "load_bdu" /\ loader.calls[i].use_cache)
            => loader.calls[i].out = build_tree(loader.calls[i].file_path)

----------------------------------------------------------------------------
(* The analysed items of a report                                          *)

\* C29: after add_all_analyzed_items(items) followed by add_findings(the
\* vulnerable items), all_analyzed_items holds each analysed item exactly
\* once and the caller's list is as the scan returned it, so the report's
\* total_files_scanned is the number of analysed items.
C29_AnalyzedItemsOnce ==
    (report_gen.pc \in {"findings_added", "generated"} /\ report_gen.front_end = "gui") =>
        /\ Len(report_gen.heap[report_gen.all_analyzed_items]) = Len(report_gen.scanned)
        /\ \A j \in DOMAIN report_gen.scanned :
              Count(report_gen.heap[report_gen.all_analyzed_items], report_gen.scanned[j]) = 1
        /\ report_gen.heap[report_gen.items] = report_gen.scanned
        /\ report_gen.pc = "generated" =>
              report_gen.total_files_scanned = Len(report_gen.scanned)

----------------------------------------------------------------------------
(* The terminal signal of a scan                                           *)

\* the terminal signals among those emitted
TerminalSignals ==
    Cardinality({j \in DOMAIN gui.emitted : gui.emitted[j] \in {"finished", "error"}})

\* C30: every run of run_scan ends with exactly one terminal signal, finished
\* or error, never both and never neither, whatever the scan type and the
\* outcome of the scan under it.
C30_OneTerminalSignal ==
    /\ TerminalSignals <= 1
    /\ gui.pc = "done" => TerminalSignals = 1

====
